---- MODULE Spec2Model ----
(***************************************************************************)
(* Model of the Excel-interviewer server: the interview flow controller    *)
(* (server/services/interviewService.ts), the persistence gateway          *)
(* (server/storage.ts), the message/upload routes (server/routes.ts) and     *)
(* the score arithmetic, which JavaScript carries out on IEEE-754 doubles.   *)
(***************************************************************************)
EXTENDS Integers, Sequences, FiniteSets, TLC

(***************************************************************************)
(* IEEE-754 binary64 arithmetic on non-negative values below 1024.         *)
(* TLC integers are 32 bits wide, so a value is kept exactly as four limbs *)
(* of LimbBits bits, least significant first: <<f1, f2, f3, n>> denotes    *)
(* n + f3/2^21 + f2/2^42 + f1/2^63.  Every intermediate result of the      *)
(* score formulas is an exact multiple of 2^-63, and rounding one of them  *)
(* to 53 significant bits discards fewer than LimbBits low bits.           *)
(***************************************************************************)
LimbBits == 21
MantBits == 53
Limb == 2 ^ LimbBits

\* propagate carries so that the three fractional limbs are below Limb
Carry(t) ==
    LET a == t[1]
        b == t[2] + (a \div Limb)
        c == t[3] + (b \div Limb)
        d == t[4] + (c \div Limb)
    IN  <<a % Limb, b % Limb, c % Limb, d>>

BigAdd(x, y) == Carry(<<x[1] + y[1], x[2] + y[2], x[3] + y[3], x[4] + y[4]>>)

BigMulInt(x, n) == Carry(<<x[1] * n, x[2] * n, x[3] * n, x[4] * n>>)

\* number of significant bits of a limb
LimbLen(n) == CHOOSE k \in 0..31 : n < 2 ^ k /\ (k = 0 \/ n >= 2 ^ (k - 1))

BitLen(x) ==
    IF x[4] # 0 THEN 3 * LimbBits + LimbLen(x[4])
    ELSE IF x[3] # 0 THEN 2 * LimbBits + LimbLen(x[3])
    ELSE IF x[2] # 0 THEN LimbBits + LimbLen(x[2])
    ELSE LimbLen(x[1])

\* round an exact value (sticky: a non-zero part below 2^-63 was cut off)
\* to the nearest double, ties to even
RoundToDouble(x, sticky) ==
    LET k == BitLen(x) - MantBits
    IN  IF k <= 0 THEN x
        ELSE LET unit == 2 ^ k
                 low  == x[1] % unit
                 half == unit \div 2
                 odd  == IF k < LimbBits THEN (x[1] \div unit) % 2 = 1
                                         ELSE x[2] % 2 = 1
                 up   == \/ low > half
                         \/ low = half /\ (sticky \/ odd)
             IN  Carry(<<x[1] - low + (IF up THEN unit ELSE 0), x[2], x[3], x[4]>>)

\* the double a decimal literal num/den denotes (0 < num < den, den <= 1000):
\* long division to 63 binary places, then rounding
DoubleLiteral(num, den) ==
    LET d3 == (num * Limb) \div den
        r3 == (num * Limb) % den
        d2 == (r3 * Limb) \div den
        r2 == (r3 * Limb) % den
        d1 == (r2 * Limb) \div den
        r1 == (r2 * Limb) % den
    IN  RoundToDouble(<<d1, d2, d3, 0>>, r1 # 0)

\* n * lit in double arithmetic, n an integer-valued double
FMulInt(n, lit) == RoundToDouble(BigMulInt(lit, n), FALSE)

FAdd(x, y) == RoundToDouble(BigAdd(x, y), FALSE)

\* Math.round: floor(x + 0.5), the sum taken exactly
MathRound(x) == BigAdd(x, <<0, 0, Limb \div 2, 0>>)[4]

(***************************************************************************)
(* Bounds of the model.                                                    *)
(***************************************************************************)
\* processUserMessage requests begun in a run of one-at-a-time turns
MaxCalls == 10
\* of these, requests that carry an uploaded file
MaxUploads == 2
\* requests that name a session id no session has
MaxNotFound == 1
\* external calls (AI service, spreadsheet parser) that fail
MaxFailures == 1
\* processUserMessage requests begun in a run of interleaved turns
MaxConcCalls == 2
\* the same, in the runs where one request stalls while two others are served
MaxStallCalls == 3
\* of these, requests that carry an uploaded file
MaxConcUploads == 1
\* Question rows of one category handed to calculateAverageScore
MaxRows == 3
\* sheets of a workbook handed to the spreadsheet inspector
MaxSheets == 3
\* requests made to the session-scoped endpoints in a run of SpecRoutes
MaxRequests == 1
\* path segments of a request after /api/interviews
MaxPathTail == 3

Procs == {1, 2}
SessionIds == {"s1", "s2"}
\* the id gen_random_uuid() gives the session; "s2" is never handed out
NewSessionId == "s1"
DemoUser == "demo-user"
\* req.user.claims.sub of a caller who owns no session
OtherUser == "other-user"
Users == {DemoUser, OtherUser}

\* the two registerRoutes: with isAuthenticated and owner checks, and without
Variants == {"authenticated", "demo"}

\* file.mimetype of the uploaded file; NoFile: the request carries no file
NoFile == "none"
XlsxType == "application/vnd.openxmlformats-officedocument.spreadsheetml.sheet"
XlsType == "application/vnd.ms-excel"
CsvType == "text/csv"
MimeTypes == {XlsxType, XlsType, CsvType}

allowedTypes == {XlsxType, XlsType}

\* a filter that lets every file through
fileFilter_AcceptAll(mimetype) == TRUE

\* multer fileFilter: allowedTypes.includes(file.mimetype)
fileFilter(mimetype) == mimetype \in allowedTypes

\* :templateType of the template route
TemplateTypes == {"sales_analysis", "data_cleanup", "unknown"}

(***************************************************************************)
(* The question script.                                                    *)
(***************************************************************************)
NoTask == "none"

QUESTION_TEMPLATES == <<
    [category |-> "conceptual",  taskType |-> NoTask,           timeLimit |-> 0],
    [category |-> "conceptual",  taskType |-> NoTask,           timeLimit |-> 0],
    [category |-> "practical",   taskType |-> "data_cleanup",   timeLimit |-> 8],
    [category |-> "practical",   taskType |-> "sales_analysis", timeLimit |-> 10],
    [category |-> "explanation", taskType |-> NoTask,           timeLimit |-> 0],
    [category |-> "conceptual",  taskType |-> NoTask,           timeLimit |-> 0],
    [category |-> "behavioral",  taskType |-> NoTask,           timeLimit |-> 0],
    [category |-> "conceptual",  taskType |-> NoTask,           timeLimit |-> 0] >>

TotalQuestions == Len(QUESTION_TEMPLATES)

\* QUESTION_TEMPLATES[i] of the source, which indexes from 0
Template(i) == QUESTION_TEMPLATES[i + 1]

HasTemplate(i) == i >= 0 /\ i < TotalQuestions

\* a template offered for every question of the script
IsPracticalTask_AnyQuestion(i) == HasTemplate(i)

IsPracticalTask(i) ==
    HasTemplate(i) /\ Template(i).category = "practical" /\ Template(i).taskType # NoTask

(***************************************************************************)
(* Strings of the spreadsheet inspector, as sequences of characters, so    *)
(* that includes() and toUpperCase() are computed and not assumed.         *)
(***************************************************************************)
LowerCase == <<"a", "b", "c", "d", "e", "f", "g", "h", "i", "j", "k", "l", "m", "n", "o", "p", "q", "r", "s", "t", "u", "v", "w", "x", "y", "z">>
UpperCase == <<"A", "B", "C", "D", "E", "F", "G", "H", "I", "J", "K", "L", "M", "N", "O", "P", "Q", "R", "S", "T", "U", "V", "W", "X", "Y", "Z">>

ToUpperChar(c) ==
    IF \E i \in 1..Len(LowerCase) : LowerCase[i] = c
    THEN UpperCase[CHOOSE i \in 1..Len(LowerCase) : LowerCase[i] = c]
    ELSE c

ToUpperCase(s) == [i \in 1..Len(s) |-> ToUpperChar(s[i])]

Includes(s, t) ==
    \E i \in 0..(Len(s) - Len(t)) : SubSeq(s, i + 1, i + Len(t)) = t

STR_XLOOKUP == <<"X", "L", "O", "O", "K", "U", "P">>
STR_SUMIFS == <<"S", "U", "M", "I", "F", "S">>
STR_INDEX == <<"I", "N", "D", "E", "X">>
STR_MATCH == <<"M", "A", "T", "C", "H">>
STR_IF_PAREN == <<"I", "F", "(">>
STR_Sheet == <<"S", "h", "e", "e", "t">>

Monthly_Summary == <<"M", "o", "n", "t", "h", "l", "y", "_", "S", "u", "m", "m", "a", "r", "y">>
Top_Products == <<"T", "o", "p", "_", "P", "r", "o", "d", "u", "c", "t", "s">>
KPI_Dashboard == <<"K", "P", "I", "_", "D", "a", "s", "h", "b", "o", "a", "r", "d">>
Clean_Data == <<"C", "l", "e", "a", "n", "_", "D", "a", "t", "a">>
Sheet1 == <<"S", "h", "e", "e", "t", "1">>

\* formulas as the xlsx library reports them in cell.f (no leading "=")
F_xlookup == <<"x", "l", "o", "o", "k", "u", "p", "(", "A", "2", ",", "D", ":", "D", ",", "E", ":", "E", ")">>
F_sumifs == <<"S", "U", "M", "I", "F", "S", "(", "E", ":", "E", ",", "B", ":", "B", ",", "A", "2", ")">>
F_sum == <<"S", "U", "M", "(", "E", "2", ":", "E", "9", ")">>

F_index_match == <<"I", "N", "D", "E", "X", "(", "B", ":", "B", ",", "M", "A", "T", "C", "H", "(", "A", "2", ",", "A", ":", "A", ",", "0", ")", ")">>

NoFormula == << >>

\* a worksheet: its cells in row-major order (f: the cell's formula or
\* NoFormula) and the number of records sheet_to_json() yields
Cells(fs) == [i \in 1..Len(fs) |-> [f |-> fs[i]]]

WbSales ==
    [SheetNames |-> <<Monthly_Summary, Top_Products, KPI_Dashboard>>,
     Sheets |-> << [cells |-> Cells(<<NoFormula, F_sumifs>>), rows |-> 2],
                   [cells |-> Cells(<<F_xlookup>>), rows |-> 1],
                   [cells |-> Cells(<<NoFormula>>), rows |-> 0] >>]

WbPlain ==
    [SheetNames |-> <<Sheet1>>,
     Sheets |-> << [cells |-> Cells(<<NoFormula, F_sum>>), rows |-> 1] >>]

WbClean ==
    [SheetNames |-> <<Clean_Data>>,
     Sheets |-> << [cells |-> Cells(<<NoFormula, NoFormula>>), rows |-> 2] >>]

\* the workbooks a candidate uploads in the runs explored
Workbooks == {WbSales, WbPlain}

(***************************************************************************)
(* Spreadsheet inspector (ExcelProcessor).                                 *)
(***************************************************************************)
Min(a, b) == IF a < b THEN a ELSE b
Max(a, b) == IF a > b THEN a ELSE b

RECURSIVE extractFormulas(_)
extractFormulas(cells) ==
    IF cells = << >> THEN << >>
    ELSE (IF Head(cells).f # NoFormula THEN <<Head(cells).f>> ELSE << >>)
         \o extractFormulas(Tail(cells))

Some(fs, P(_)) == \E i \in 1..Len(fs) : P(fs[i])

evaluateSalesAnalysis(worksheet) ==
    LET formulas   == extractFormulas(worksheet.cells)
        hasXLOOKUP == Some(formulas, LAMBDA f : Includes(ToUpperCase(f), STR_XLOOKUP))
        hasSUMIFS  == Some(formulas, LAMBDA f : Includes(ToUpperCase(f), STR_SUMIFS))
        hasINDEX   == Some(formulas, LAMBDA f : Includes(ToUpperCase(f), STR_INDEX))
        hasMATCH   == Some(formulas, LAMBDA f : Includes(ToUpperCase(f), STR_MATCH))
        lookup     == hasXLOOKUP \/ (hasINDEX /\ hasMATCH)
    IN  [formulaScore   |-> 60 + (IF lookup THEN 15 ELSE 0) + (IF hasSUMIFS THEN 15 ELSE 0),
         structureScore |-> 60 + (IF worksheet.rows > 0 THEN 20 ELSE 0),
         issues |-> (IF lookup THEN << >> ELSE <<"missing_lookup">>)
                    \o (IF hasSUMIFS THEN << >> ELSE <<"missing_sumifs">>)]

evaluateBestPractices(workbook) ==
    LET sheetNames == workbook.SheetNames
        hasDescriptiveNames ==
            \A i \in 1..Len(sheetNames) :
                Len(sheetNames[i]) > 2 /\ ~Includes(sheetNames[i], STR_Sheet)
        hasComplexFormulas ==
            \E i \in 1..Len(sheetNames) :
                Some(extractFormulas(workbook.Sheets[i].cells),
                     LAMBDA f : Len(f) > 20 \/ Includes(f, STR_IF_PAREN))
        score == 50 + (IF hasDescriptiveNames THEN 20 ELSE 0)
                    + (IF Len(sheetNames) > 1 THEN 15 ELSE 0)
                    + (IF hasComplexFormulas THEN 15 ELSE 0)
    IN  Min(100, score)

\* the per-sheet loop of evaluateExcelFile: sums over the first n sheets
RECURSIVE SheetLoop(_, _, _)
SheetLoop(workbook, taskType, n) ==
    IF n = 0 THEN [formulaAccuracy |-> 0, structureScore |-> 0, issues |-> << >>]
    ELSE LET acc == SheetLoop(workbook, taskType, n - 1)
             sales == evaluateSalesAnalysis(workbook.Sheets[n])
         IN  IF taskType = "sales_analysis"
             THEN [formulaAccuracy |-> acc.formulaAccuracy + sales.formulaScore,
                   structureScore  |-> acc.structureScore + sales.structureScore,
                   issues |-> acc.issues \o sales.issues]
             ELSE acc

\* evaluateExcelFile without "Calculate final scores (0-100 scale)"
evaluateExcelFile_Unclamped(workbook, expectedSheets, taskType) ==
    LET sheetNames == workbook.SheetNames
        hasRequiredSheets ==
            \A i \in 1..Len(expectedSheets) :
                \E j \in 1..Len(sheetNames) : sheetNames[j] = expectedSheets[i]
        loop == SheetLoop(workbook, taskType, Len(sheetNames))
        structure == (IF hasRequiredSheets THEN 0 ELSE -20) + loop.structureScore
    IN  [formulaAccuracy    |-> loop.formulaAccuracy,
         structureScore     |-> structure,
         bestPracticesScore |-> evaluateBestPractices(workbook),
         issues |-> (IF hasRequiredSheets THEN << >> ELSE <<"missing_sheets">>)
                    \o loop.issues]

\* evaluateExcelFile running the per-sheet evaluation whatever the task type
evaluateExcelFile_EveryTask(workbook, expectedSheets, taskType) ==
    LET sheetNames == workbook.SheetNames
        hasRequiredSheets ==
            \A i \in 1..Len(expectedSheets) :
                \E j \in 1..Len(sheetNames) : sheetNames[j] = expectedSheets[i]
        loop == SheetLoop(workbook, "sales_analysis", Len(sheetNames))
        structure == (IF hasRequiredSheets THEN 0 ELSE -20) + loop.structureScore
    IN  [formulaAccuracy    |-> Max(0, Min(100, loop.formulaAccuracy)),
         structureScore     |-> Max(0, Min(100, structure)),
         bestPracticesScore |-> Max(0, Min(100, evaluateBestPractices(workbook))),
         issues |-> (IF hasRequiredSheets THEN << >> ELSE <<"missing_sheets">>)
                    \o loop.issues]

evaluateExcelFile(workbook, expectedSheets, taskType) ==
    LET sheetNames == workbook.SheetNames
        hasRequiredSheets ==
            \A i \in 1..Len(expectedSheets) :
                \E j \in 1..Len(sheetNames) : sheetNames[j] = expectedSheets[i]
        loop == SheetLoop(workbook, taskType, Len(sheetNames))
        structure == (IF hasRequiredSheets THEN 0 ELSE -20) + loop.structureScore
    IN  [formulaAccuracy    |-> Max(0, Min(100, loop.formulaAccuracy)),
         structureScore     |-> Max(0, Min(100, structure)),
         bestPracticesScore |-> Max(0, Min(100, evaluateBestPractices(workbook))),
         issues |-> (IF hasRequiredSheets THEN << >> ELSE <<"missing_sheets">>)
                    \o loop.issues]

expectedSheetsOf(taskType) ==
    IF taskType = "sales_analysis"
    THEN <<Monthly_Summary, Top_Products, KPI_Dashboard>>
    ELSE <<Clean_Data>>

(***************************************************************************)
(* Score arithmetic of the flow controller, on doubles.                    *)
(***************************************************************************)
D_0_5  == DoubleLiteral(5, 10)
D_0_3  == DoubleLiteral(3, 10)
D_0_2  == DoubleLiteral(2, 10)
D_0_25 == DoubleLiteral(25, 100)
D_0_15 == DoubleLiteral(15, 100)
D_0_1  == DoubleLiteral(1, 10)

\* PracticalOverall with the sum truncated (Math.floor) instead of rounded
PracticalOverall_Truncated(formulaAccuracy, structureScore, bestPracticesScore) ==
    FAdd(FAdd(FMulInt(formulaAccuracy, D_0_5),
              FMulInt(structureScore, D_0_3)),
         FMulInt(bestPracticesScore, D_0_2))[4]

\* Math.round(formulaAccuracy * 0.5 + structureScore * 0.3 + bestPracticesScore * 0.2)
PracticalOverall(formulaAccuracy, structureScore, bestPracticesScore) ==
    MathRound(FAdd(FAdd(FMulInt(formulaAccuracy, D_0_5),
                        FMulInt(structureScore, D_0_3)),
                   FMulInt(bestPracticesScore, D_0_2)))

\* WeightedOverall with the sum truncated (Math.floor) instead of rounded
WeightedOverall_Truncated(practicalScore, conceptualScore, explanationScore, behavioralScore) ==
    FAdd(FAdd(FAdd(FMulInt(practicalScore, D_0_5),
                   FMulInt(conceptualScore, D_0_25)),
              FMulInt(explanationScore, D_0_15)),
         FMulInt(behavioralScore, D_0_1))[4]

\* Math.round(practical * 0.5 + conceptual * 0.25 + explanation * 0.15 + behavioral * 0.1)
WeightedOverall(practicalScore, conceptualScore, explanationScore, behavioralScore) ==
    MathRound(FAdd(FAdd(FAdd(FMulInt(practicalScore, D_0_5),
                             FMulInt(conceptualScore, D_0_25)),
                        FMulInt(explanationScore, D_0_15)),
                   FMulInt(behavioralScore, D_0_1)))

\* a score column that is NULL
NoScore == -9999

\* Number(q.score) || 0
NumberOrZero(score) == IF score = NoScore THEN 0 ELSE score

\* questions.reduce((sum, q) => sum + (Number(q.score) || 0), 0)
RECURSIVE SumScores(_)
SumScores(rows) ==
    IF rows = << >> THEN 0
    ELSE NumberOrZero(Head(rows).score) + SumScores(Tail(rows))

\* calculateAverageScore without the rounding of the quotient (Math.floor)
calculateAverageScore_Truncated(rows) ==
    IF Len(rows) = 0 THEN 0
    ELSE SumScores(rows) \div Len(rows)

\* Math.round(total / questions.length).  total and length are small
\* integers, so the double quotient lies on the same side of every n + 0.5
\* as the exact quotient, and n + 0.5 itself is a double.
calculateAverageScore(rows) ==
    IF Len(rows) = 0 THEN 0
    ELSE (2 * SumScores(rows) + Len(rows)) \div (2 * Len(rows))

(***************************************************************************)
(* State.                                                                  *)
(***************************************************************************)
VARIABLES
    sessions,      \* table interview_sessions: session id -> row
    messages,      \* table chat_messages, in insertion (timestamp) order
    questions,     \* table interview_questions, in insertion order
    evaluations,   \* table excel_evaluations, in insertion order
    startPc,       \* position of the POST /api/interviews/start handler
    started,       \* the start request has returned the session to the client
    calls,         \* per request slot: position and locals of a message/upload request
    nCalls,        \* requests begun on an existing session
    nUploads,      \* of these, uploads
    nNotFound,     \* requests begun on an unknown session id
    nFailures,     \* external calls that have failed
    calc           \* inputs and result of the function a specification of one
                   \* function applies (SpecScore, SpecAverage, ...)

vars == <<sessions, messages, questions, evaluations, startPc, started,
          calls, nCalls, nUploads, nNotFound, nFailures, calc>>

db == <<sessions, messages, questions, evaluations>>

NoList == "null"

\* absence of a row for a session id
NoSession ==
    [userId |-> "", status |-> "none", currentQuestionIndex |-> -1,
     totalQuestions |-> 0, completedAt |-> FALSE,
     overallScore |-> NoScore, practicalScore |-> NoScore,
     conceptualScore |-> NoScore, explanationScore |-> NoScore,
     behavioralScore |-> NoScore,
     strengths |-> NoList, improvements |-> NoList, recommendations |-> NoList]

NoMetadata ==
    [filePath |-> FALSE, templateType |-> NoTask, timeLimit |-> 0,
     interviewComplete |-> FALSE, finalScore |-> NoScore]

\* content of a chat message: which text it is, and the parts the text is
\* built from (the feedback sentence, the question quoted, the closing line)
Content(text, feedback, question, closing) ==
    [text |-> text, feedback |-> feedback, question |-> question, closing |-> closing]

ChatMessage(sessionId, sender, messageType, content, metadata) ==
    [sessionId |-> sessionId, sender |-> sender, messageType |-> messageType,
     content |-> content, metadata |-> metadata]

NoEvaluation ==
    [formulaAccuracy |-> 0, structureScore |-> 0, bestPracticesScore |-> 0,
     issues |-> << >>]

NoScores == [practical |-> 0, conceptual |-> 0, explanation |-> 0,
             behavioral |-> 0, overall |-> 0]

NoSnapshot == [session |-> NoSession, nMessages |-> 0, nQuestions |-> 0,
               nEvaluations |-> 0]

\* session.currentQuestionIndex before the session is read
NoIndex == -2

\* a request slot with no request in it; resp is the status of the last
\* response and at the step that sent it
IdleCall ==
    [pc |-> "idle", resp |-> 0, at |-> "", variant |-> "", route |-> "",
     user |-> "", file |-> NoFile, templateType |-> "",
     sid |-> "", hasFile |-> FALSE,
     sIdx |-> NoIndex, next |-> NoIndex, shouldContinue |-> TRUE, feedback |-> "none",
     evalScore |-> 0, xl |-> NoEvaluation, qIdx |-> 0, latestId |-> 0,
     scores |-> NoScores, aiCalls |-> 0, xlCalls |-> 0, pre |-> NoSnapshot]

(***************************************************************************)
(* Persistence gateway (DatabaseStorage).                                  *)
(***************************************************************************)
getSessionMessages(sessionId) ==
    SelectSeq(messages, LAMBDA m : m.sessionId = sessionId)

\* rows of a session in insertion order
SessionRows(sessionId) ==
    SelectSeq(questions, LAMBDA q : q.sessionId = sessionId)

\* insertion sort by questionIndex; rows with equal questionIndex keep
\* their insertion order
RECURSIVE InsertByIndex(_, _)
InsertByIndex(sorted, q) ==
    IF sorted = << >> THEN <<q>>
    ELSE IF Head(sorted).questionIndex <= q.questionIndex
         THEN <<Head(sorted)>> \o InsertByIndex(Tail(sorted), q)
         ELSE <<q>> \o sorted

RECURSIVE SortByIndex(_)
SortByIndex(rows) ==
    IF rows = << >> THEN << >>
    ELSE InsertByIndex(SortByIndex(SubSeq(rows, 1, Len(rows) - 1)), rows[Len(rows)])

getSessionQuestions(sessionId) == SortByIndex(SessionRows(sessionId))

\* getLatestQuestionId returning the id of the first row read (questions[0])
LatestQuestionIds_First(sessionId) ==
    LET rows == SessionRows(sessionId)
    IN  IF rows = << >> THEN {0}
        ELSE {rows[i].id : i \in {j \in 1..Len(rows) :
                 \A k \in 1..Len(rows) : rows[k].questionIndex >= rows[j].questionIndex}}

\* the id getLatestQuestionId can return: the id of the last row of
\* getSessionQuestions.  ORDER BY question_index leaves the order of rows
\* with equal questionIndex to the database, so any row of the highest
\* questionIndex can come last; 0 stands for '' (no row).
LatestQuestionIds(sessionId) ==
    LET rows == SessionRows(sessionId)
    IN  IF rows = << >> THEN {0}
        ELSE {rows[i].id : i \in {j \in 1..Len(rows) :
                 \A k \in 1..Len(rows) : rows[k].questionIndex <= rows[j].questionIndex}}

(***************************************************************************)
(* External AI service: the scores it returns in the runs explored.        *)
(***************************************************************************)
Scores == {85}

(***************************************************************************)
(* POST /api/interviews/start -> InterviewService.startInterview           *)
(***************************************************************************)
\* StartCreate without currentQuestionIndex: -1 in the insert, the column's
\* default 0 taking its place
StartCreate_ColumnDefault(inFlightLimit) ==
    /\ startPc = "idle"
    /\ sessions[NewSessionId] = NoSession
    /\ Cardinality({p \in Procs : calls[p].pc # "idle"}) < inFlightLimit
    /\ sessions' = [sessions EXCEPT ![NewSessionId] =
                      [NoSession EXCEPT !.userId = DemoUser,
                                        !.status = "in_progress",
                                        !.currentQuestionIndex = 0,
                                        !.totalQuestions = Len(QUESTION_TEMPLATES)]]
    /\ startPc' = "welcome"
    /\ UNCHANGED <<messages, questions, evaluations, started, calls, nCalls,
                   nUploads, nNotFound, nFailures, calc>>

\* storage.createInterviewSession
StartCreate(inFlightLimit) ==
    /\ startPc = "idle"
    /\ sessions[NewSessionId] = NoSession
    /\ Cardinality({p \in Procs : calls[p].pc # "idle"}) < inFlightLimit
    /\ sessions' = [sessions EXCEPT ![NewSessionId] =
                      [NoSession EXCEPT !.userId = DemoUser,
                                        !.status = "in_progress",
                                        !.currentQuestionIndex = -1,
                                        !.totalQuestions = Len(QUESTION_TEMPLATES)]]
    /\ startPc' = "welcome"
    /\ UNCHANGED <<messages, questions, evaluations, started, calls, nCalls,
                   nUploads, nNotFound, nFailures, calc>>

\* storage.addChatMessage (welcome), then return session
StartWelcome ==
    /\ startPc = "welcome"
    /\ messages' = Append(messages,
          ChatMessage(NewSessionId, "ai", "text",
                      Content("welcome", "none", -1, FALSE), NoMetadata))
    /\ startPc' = "done"
    /\ started' = TRUE
    /\ UNCHANGED <<sessions, questions, evaluations, calls, nCalls, nUploads,
                   nNotFound, nFailures, calc>>

(***************************************************************************)
(* POST /api/interviews/:sessionId/message and .../upload                  *)
(*   -> InterviewService.processUserMessage                                *)
(* One action per awaited operation; the synchronous code that follows an  *)
(* await belongs to the same action.                                       *)
(***************************************************************************)
InFlight == {p \in Procs : calls[p].pc # "idle"}

\* number of requests being served, the start request included
Serving == Cardinality(InFlight) + (IF startPc = "welcome" THEN 1 ELSE 0)

SetCall(p, c) == calls' = [calls EXCEPT ![p] = c]

Respond(c, code) == [c EXCEPT !.pc = "idle", !.resp = code, !.at = c.pc]

Snapshot(sid) ==
    [session |-> sessions[sid], nMessages |-> Len(messages),
     nQuestions |-> Len(questions), nEvaluations |-> Len(evaluations)]

\* a request naming a session id of sids arrives; at most inFlightLimit
\* requests are being served, and at most callLimit requests, uploadLimit
\* of them uploads, are made on the session
BeginCall(p, inFlightLimit, callLimit, uploadLimit, sids) ==
    /\ calls[p].pc = "idle"
    /\ \A q \in Procs : q < p => calls[q].pc # "idle"
    /\ Serving < inFlightLimit
    /\ \E sid \in sids, hasFile \in BOOLEAN :
          /\ IF sid = NewSessionId
             THEN /\ started
                  /\ nCalls < callLimit
                  /\ hasFile => nUploads < uploadLimit
                  /\ nCalls' = nCalls + 1
                  /\ nUploads' = IF hasFile THEN nUploads + 1 ELSE nUploads
                  /\ UNCHANGED nNotFound
             ELSE /\ nNotFound < MaxNotFound
                  /\ ~hasFile
                  /\ nNotFound' = nNotFound + 1
                  /\ UNCHANGED <<nCalls, nUploads>>
          /\ SetCall(p, [IdleCall EXCEPT !.pc = "route", !.sid = sid,
                                         !.variant = "demo",
                                         !.route = IF hasFile THEN "upload" ELSE "message",
                                         !.user = DemoUser,
                                         !.file = IF hasFile THEN XlsxType ELSE NoFile,
                                         !.hasFile = hasFile,
                                         !.pre = Snapshot(sid)])
    /\ UNCHANGED <<sessions, messages, questions, evaluations, startPc, started,
                   nFailures, calc>>

\* a request to one of the session-scoped endpoints arrives (GET session,
\* POST message, POST upload, GET template); an upload passes through
\* multer before its handler runs
BeginRequest(p, inFlightLimit, requestLimit) ==
    /\ calls[p].pc = "idle"
    /\ \A q \in Procs : q < p => calls[q].pc # "idle"
    /\ Serving < inFlightLimit
    /\ nCalls < requestLimit
    /\ \E variant \in Variants, sid \in SessionIds, user \in Users,
          route \in {"get", "message", "upload", "template"} :
       \E file \in (IF route = "upload" THEN MimeTypes \cup {NoFile} ELSE {NoFile}),
          templateType \in (IF route = "template" THEN TemplateTypes ELSE {""}) :
          /\ variant = "demo" => user = DemoUser
          /\ SetCall(p, [IdleCall EXCEPT !.pc = IF route = "upload" THEN "filter" ELSE "route",
                                         !.variant = variant, !.route = route,
                                         !.user = user, !.file = file,
                                         !.templateType = templateType,
                                         !.sid = sid,
                                         !.hasFile = (file # NoFile),
                                         !.pre = Snapshot(sid)])
    /\ nCalls' = nCalls + 1
    /\ nUploads' = nUploads
    /\ UNCHANGED <<sessions, messages, questions, evaluations, startPc, started,
                   nNotFound, nFailures, calc>>

\* upload.single('excel'): the fileFilter; on its error the handler is not
\* run and the framework's error handling answers
UploadFilter(p) ==
    /\ calls[p].pc = "filter"
    /\ SetCall(p, IF calls[p].file # NoFile /\ ~fileFilter(calls[p].file)
                  THEN Respond(calls[p], 500)
                  ELSE [calls[p] EXCEPT !.pc = "route"])
    /\ UNCHANGED <<sessions, messages, questions, evaluations, startPc, started,
                   nCalls, nUploads, nNotFound, nFailures, calc>>

\* RouteLookup that takes the session to exist
RouteLookup_NoSessionCheck(p) ==
    /\ calls[p].pc = "route"
    /\ LET c == calls[p]
       IN  SetCall(p,
              IF c.route = "upload" /\ c.file = NoFile THEN Respond(c, 400)
              ELSE IF c.route = "get" THEN [c EXCEPT !.pc = "details"]
              ELSE IF c.route = "template" THEN [c EXCEPT !.pc = "template"]
              ELSE [c EXCEPT !.pc = "read"])
    /\ UNCHANGED <<sessions, messages, questions, evaluations, startPc, started,
                   nCalls, nUploads, nNotFound, nFailures, calc>>

\* RouteLookup without session.userId !== userId
RouteLookup_NoOwnerCheck(p) ==
    /\ calls[p].pc = "route"
    /\ LET c == calls[p]
           session == sessions[c.sid]
       IN  SetCall(p,
              IF c.route = "upload" /\ c.file = NoFile THEN Respond(c, 400)
              ELSE IF session = NoSession THEN Respond(c, 404)
              ELSE IF c.route = "get" THEN [c EXCEPT !.pc = "details"]
              ELSE IF c.route = "template" THEN [c EXCEPT !.pc = "template"]
              ELSE [c EXCEPT !.pc = "read"])
    /\ UNCHANGED <<sessions, messages, questions, evaluations, startPc, started,
                   nCalls, nUploads, nNotFound, nFailures, calc>>

\* route handler up to its service call: the upload route answers 400
\* without a file; then storage.getInterviewSession, 404 when there is no
\* session or, in the authenticated variant, the caller is not its owner
RouteLookup(p) ==
    /\ calls[p].pc = "route"
    /\ LET c == calls[p]
           session == sessions[c.sid]
       IN  SetCall(p,
              IF c.route = "upload" /\ c.file = NoFile THEN Respond(c, 400)
              ELSE IF session = NoSession
                      \/ (c.variant = "authenticated" /\ session.userId # c.user)
                   THEN Respond(c, 404)
              ELSE IF c.route = "get" THEN [c EXCEPT !.pc = "details"]
              ELSE IF c.route = "template" THEN [c EXCEPT !.pc = "template"]
              ELSE [c EXCEPT !.pc = "read"])
    /\ UNCHANGED <<sessions, messages, questions, evaluations, startPc, started,
                   nCalls, nUploads, nNotFound, nFailures, calc>>

\* GET /api/interviews/:sessionId: getSessionWithDetails, which only reads
GetDetails(p) ==
    /\ calls[p].pc = "details"
    /\ SetCall(p, Respond(calls[p], 200))
    /\ UNCHANGED <<sessions, messages, questions, evaluations, startPc, started,
                   nCalls, nUploads, nNotFound, nFailures, calc>>

\* GET .../template/:templateType: ExcelProcessor.saveTemplate, which throws
\* on an unknown template type, then res.download
SaveTemplate(p) ==
    /\ calls[p].pc = "template"
    /\ SetCall(p, IF calls[p].templateType \in {"sales_analysis", "data_cleanup"}
                  THEN Respond(calls[p], 200)
                  ELSE Respond(calls[p], 500))
    /\ UNCHANGED <<sessions, messages, questions, evaluations, startPc, started,
                   nCalls, nUploads, nNotFound, nFailures, calc>>

\* processUserMessage: storage.getInterviewSession; throws when there is none
ReadSession(p) ==
    /\ calls[p].pc = "read"
    /\ SetCall(p, IF sessions[calls[p].sid] = NoSession
                  THEN Respond(calls[p], 500)
                  ELSE [calls[p] EXCEPT !.pc = "addUser",
                          !.sIdx = sessions[calls[p].sid].currentQuestionIndex])
    /\ UNCHANGED <<sessions, messages, questions, evaluations, startPc, started,
                   nCalls, nUploads, nNotFound, nFailures, calc>>

\* the completion check made with > in place of >=
AfterAnswer_CompletesPastEnd(c) ==
    IF c.next > Len(QUESTION_TEMPLATES)
    THEN [c EXCEPT !.pc = "c_getQ", !.shouldContinue = FALSE]
    ELSE [c EXCEPT !.pc = "update"]

\* "Check if interview is complete": where the call goes once nextQuestionIndex is known
AfterAnswer(c) ==
    IF c.next >= Len(QUESTION_TEMPLATES)
    THEN [c EXCEPT !.pc = "c_getQ", !.shouldContinue = FALSE]
    ELSE [c EXCEPT !.pc = "update"]

\* Dispatch with nextQuestionIndex initialised to the index after the
\* current one, the branches incrementing it as they do
Dispatch_NextPreIncremented(c) ==
    IF c.sIdx = -1 THEN [c EXCEPT !.pc = "w_update"]
    ELSE IF ~HasTemplate(c.sIdx) THEN Respond(c, 500)
    ELSE LET cat == Template(c.sIdx).category
             d   == [c EXCEPT !.next = c.sIdx + 1]
         IN  IF cat = "practical" /\ c.hasFile THEN [d EXCEPT !.pc = "xl_eval"]
             ELSE IF cat = "conceptual" \/ cat = "explanation" THEN [d EXCEPT !.pc = "ai_eval"]
             ELSE IF cat = "behavioral" THEN [d EXCEPT !.pc = "addQ", !.evalScore = 80,
                                                       !.feedback = "behavioral"]
             ELSE AfterAnswer(d)

\* Dispatch evaluating the text given in answer to a practical question
\* like the answer to a conceptual one
Dispatch_PracticalTextEvaluated(c) ==
    IF c.sIdx = -1 THEN [c EXCEPT !.pc = "w_update"]
    ELSE IF ~HasTemplate(c.sIdx) THEN Respond(c, 500)
    ELSE LET cat == Template(c.sIdx).category
             d   == [c EXCEPT !.next = c.sIdx]
         IN  IF cat = "practical" /\ c.hasFile THEN [d EXCEPT !.pc = "xl_eval"]
             ELSE IF cat \in {"conceptual", "explanation", "practical"}
                  THEN [d EXCEPT !.pc = "ai_eval"]
             ELSE IF cat = "behavioral" THEN [d EXCEPT !.pc = "addQ", !.evalScore = 80,
                                                       !.feedback = "behavioral"]
             ELSE AfterAnswer(d)

\* Dispatch treating an index past the script as an answered last question
Dispatch_PastScriptCompletes(c) ==
    IF c.sIdx = -1 THEN [c EXCEPT !.pc = "w_update"]
    ELSE IF ~HasTemplate(c.sIdx) THEN AfterAnswer([c EXCEPT !.next = c.sIdx])
    ELSE LET cat == Template(c.sIdx).category
             d   == [c EXCEPT !.next = c.sIdx]
         IN  IF cat = "practical" /\ c.hasFile THEN [d EXCEPT !.pc = "xl_eval"]
             ELSE IF cat = "conceptual" \/ cat = "explanation" THEN [d EXCEPT !.pc = "ai_eval"]
             ELSE IF cat = "behavioral" THEN [d EXCEPT !.pc = "addQ", !.evalScore = 80,
                                                       !.feedback = "behavioral"]
             ELSE AfterAnswer(d)

\* Dispatch sending the behavioral answer to the AI evaluation like a
\* conceptual one
Dispatch_BehavioralEvaluated(c) ==
    IF c.sIdx = -1 THEN [c EXCEPT !.pc = "w_update"]
    ELSE IF ~HasTemplate(c.sIdx) THEN Respond(c, 500)
    ELSE LET cat == Template(c.sIdx).category
             d   == [c EXCEPT !.next = c.sIdx]
         IN  IF cat = "practical" /\ c.hasFile THEN [d EXCEPT !.pc = "xl_eval"]
             ELSE IF cat \in {"conceptual", "explanation", "behavioral"}
                  THEN [d EXCEPT !.pc = "ai_eval"]
             ELSE AfterAnswer(d)

\* the synchronous code after the user message is stored: the welcome
\* branch, the lookup of the current question and the dispatch on its category
Dispatch(c) ==
    IF c.sIdx = -1 THEN [c EXCEPT !.pc = "w_update"]
    ELSE IF ~HasTemplate(c.sIdx) THEN Respond(c, 500)
    ELSE LET cat == Template(c.sIdx).category
             d   == [c EXCEPT !.next = c.sIdx]
         IN  IF cat = "practical" /\ c.hasFile THEN [d EXCEPT !.pc = "xl_eval"]
             ELSE IF cat = "conceptual" \/ cat = "explanation" THEN [d EXCEPT !.pc = "ai_eval"]
             ELSE IF cat = "behavioral" THEN [d EXCEPT !.pc = "addQ", !.evalScore = 80,
                                                       !.feedback = "behavioral"]
             ELSE AfterAnswer(d)

\* storage.addChatMessage (user message)
AddUserMessage(p) ==
    /\ calls[p].pc = "addUser"
    /\ messages' = Append(messages,
          ChatMessage(calls[p].sid, "user",
                      IF calls[p].hasFile THEN "file_upload" ELSE "text",
                      Content("user", "none", -1, FALSE),
                      [NoMetadata EXCEPT !.filePath = calls[p].hasFile]))
    /\ SetCall(p, Dispatch(calls[p]))
    /\ UNCHANGED <<sessions, questions, evaluations, startPc, started,
                   nCalls, nUploads, nNotFound, nFailures, calc>>

\* WelcomeUpdate without the write of index 0
WelcomeUpdate_NotPersisted(p) ==
    /\ calls[p].pc = "w_update"
    /\ SetCall(p, [calls[p] EXCEPT !.pc = "w_addAi"])
    /\ UNCHANGED <<sessions, messages, questions, evaluations, startPc, started,
                   nCalls, nUploads, nNotFound, nFailures, calc>>

\* welcome branch: storage.updateInterviewSession({currentQuestionIndex: 0})
WelcomeUpdate(p) ==
    /\ calls[p].pc = "w_update"
    /\ sessions' = [sessions EXCEPT ![calls[p].sid].currentQuestionIndex = 0]
    /\ SetCall(p, [calls[p] EXCEPT !.pc = "w_addAi"])
    /\ UNCHANGED <<messages, questions, evaluations, startPc, started,
                   nCalls, nUploads, nNotFound, nFailures, calc>>

\* welcome branch: storage.addChatMessage (first question)
WelcomeAddAi(p) ==
    /\ calls[p].pc = "w_addAi"
    /\ messages' = Append(messages,
          ChatMessage(calls[p].sid, "ai", "text",
                      Content("first_question", "none", 0, FALSE), NoMetadata))
    /\ SetCall(p, [calls[p] EXCEPT !.pc = "ret"])
    /\ UNCHANGED <<sessions, questions, evaluations, startPc, started,
                   nCalls, nUploads, nNotFound, nFailures, calc>>

PracticalFeedback(score) ==
    IF score >= 80 THEN "practical_excellent"
    ELSE IF score >= 60 THEN "practical_good"
    ELSE "practical_improve"

AnswerFeedback(category, score) ==
    IF category = "explanation" THEN "explanation"
    ELSE IF score >= 70 THEN "conceptual_excellent"
    ELSE IF score >= 50 THEN "conceptual_good"
    ELSE "conceptual_some"

\* evaluatePracticalTask: ExcelProcessor.evaluateExcelFile, which throws when
\* the file cannot be read, then the weighted score
ExcelEvaluate(p) ==
    /\ calls[p].pc = "xl_eval"
    /\ \/ /\ nFailures < MaxFailures
          /\ nFailures' = nFailures + 1
          /\ SetCall(p, Respond([calls[p] EXCEPT !.xlCalls = @ + 1], 500))
       \/ \E wb \in Workbooks, taskType \in {Template(calls[p].sIdx).taskType} :
          \E ev \in {evaluateExcelFile(wb, expectedSheetsOf(taskType), taskType)} :
          \E overall \in {PracticalOverall(ev.formulaAccuracy, ev.structureScore,
                                           ev.bestPracticesScore)} :
                /\ SetCall(p, [calls[p] EXCEPT !.pc = "xl_getIdx", !.xlCalls = @ + 1,
                                               !.xl = ev, !.evalScore = overall,
                                               !.feedback = PracticalFeedback(overall)])
                /\ UNCHANGED nFailures
    /\ UNCHANGED <<sessions, messages, questions, evaluations, startPc, started,
                   nCalls, nUploads, nNotFound, calc>>

\* getCurrentQuestionIndex returning the index after the stored one
getCurrentQuestionIndex_Next(sessionId) ==
    IF sessions[sessionId] = NoSession THEN 0
    ELSE sessions[sessionId].currentQuestionIndex + 1

\* getCurrentQuestionIndex: session?.currentQuestionIndex || 0
getCurrentQuestionIndex(sessionId) ==
    IF sessions[sessionId] = NoSession THEN 0
    ELSE sessions[sessionId].currentQuestionIndex

ExcelGetIndex(p) ==
    /\ calls[p].pc = "xl_getIdx"
    /\ SetCall(p, [calls[p] EXCEPT !.pc = "xl_addQ",
                                   !.qIdx = getCurrentQuestionIndex(calls[p].sid)])
    /\ UNCHANGED <<sessions, messages, questions, evaluations, startPc, started,
                   nCalls, nUploads, nNotFound, nFailures, calc>>

QuestionRow(sessionId, questionIndex, category, score, fileUploaded) ==
    [id |-> Len(questions) + 1, sessionId |-> sessionId,
     questionIndex |-> questionIndex, category |-> category, score |-> score,
     fileUploaded |-> fileUploaded, isCompleted |-> TRUE]

\* evaluatePracticalTask: storage.addInterviewQuestion
ExcelAddQuestion(p) ==
    /\ calls[p].pc = "xl_addQ"
    /\ questions' = Append(questions,
          QuestionRow(calls[p].sid, calls[p].qIdx, Template(calls[p].sIdx).category,
                      calls[p].evalScore, TRUE))
    /\ SetCall(p, [calls[p] EXCEPT !.pc = "xl_latest"])
    /\ UNCHANGED <<sessions, messages, evaluations, startPc, started,
                   nCalls, nUploads, nNotFound, nFailures, calc>>

\* evaluatePracticalTask: getLatestQuestionId
ExcelGetLatest(p) ==
    /\ calls[p].pc = "xl_latest"
    /\ \E id \in LatestQuestionIds(calls[p].sid) :
          SetCall(p, [calls[p] EXCEPT !.pc = "xl_addEval", !.latestId = id])
    /\ UNCHANGED <<sessions, messages, questions, evaluations, startPc, started,
                   nCalls, nUploads, nNotFound, nFailures, calc>>

\* evaluatePracticalTask: storage.addExcelEvaluation, then back in
\* processUserMessage nextQuestionIndex++
ExcelAddEvaluation(p) ==
    /\ calls[p].pc = "xl_addEval"
    /\ evaluations' = Append(evaluations,
          [questionId |-> calls[p].latestId,
           formulaAccuracy |-> calls[p].xl.formulaAccuracy,
           structureScore |-> calls[p].xl.structureScore,
           bestPracticesScore |-> calls[p].xl.bestPracticesScore])
    /\ SetCall(p, AfterAnswer([calls[p] EXCEPT !.next = @ + 1]))
    /\ UNCHANGED <<sessions, messages, questions, startPc, started,
                   nCalls, nUploads, nNotFound, nFailures, calc>>

\* AiEvaluate with a handler that stores an AI message before it rethrows
AiEvaluate_MessageOnFailure(p, scores) ==
    /\ calls[p].pc = "ai_eval"
    /\ \/ /\ nFailures < MaxFailures
          /\ nFailures' = nFailures + 1
          /\ messages' = Append(messages,
                ChatMessage(calls[p].sid, "ai", "text",
                            Content("error", "none", -1, FALSE), NoMetadata))
          /\ SetCall(p, Respond([calls[p] EXCEPT !.aiCalls = @ + 1], 500))
       \/ \E score \in scores :
            /\ SetCall(p, [calls[p] EXCEPT !.pc = "addQ", !.aiCalls = @ + 1,
                             !.evalScore = score,
                             !.feedback = AnswerFeedback(Template(calls[p].sIdx).category, score)])
            /\ UNCHANGED <<nFailures, messages>>
    /\ UNCHANGED <<sessions, questions, evaluations, startPc, started,
                   nCalls, nUploads, nNotFound, calc>>

\* gemini.evaluateConceptualAnswer / gemini.evaluateExplanation: returns the
\* parsed evaluation, its score one of scores, or throws
AiEvaluate(p, scores) ==
    /\ calls[p].pc = "ai_eval"
    /\ \/ /\ nFailures < MaxFailures
          /\ nFailures' = nFailures + 1
          /\ SetCall(p, Respond([calls[p] EXCEPT !.aiCalls = @ + 1], 500))
       \/ \E score \in scores :
            /\ SetCall(p, [calls[p] EXCEPT !.pc = "addQ", !.aiCalls = @ + 1,
                             !.evalScore = score,
                             !.feedback = AnswerFeedback(Template(calls[p].sIdx).category, score)])
            /\ UNCHANGED nFailures
    /\ UNCHANGED <<sessions, messages, questions, evaluations, startPc, started,
                   nCalls, nUploads, nNotFound, calc>>

\* AddQuestion without nextQuestionIndex++
AddQuestion_NoIncrement(p) ==
    /\ calls[p].pc = "addQ"
    /\ questions' = Append(questions,
          QuestionRow(calls[p].sid, calls[p].sIdx, Template(calls[p].sIdx).category,
                      calls[p].evalScore, FALSE))
    /\ SetCall(p, AfterAnswer(calls[p]))
    /\ UNCHANGED <<sessions, messages, evaluations, startPc, started,
                   nCalls, nUploads, nNotFound, nFailures, calc>>

\* conceptual / explanation / behavioral: storage.addInterviewQuestion, nextQuestionIndex++
AddQuestion(p) ==
    /\ calls[p].pc = "addQ"
    /\ questions' = Append(questions,
          QuestionRow(calls[p].sid, calls[p].sIdx, Template(calls[p].sIdx).category,
                      calls[p].evalScore, FALSE))
    /\ SetCall(p, AfterAnswer([calls[p] EXCEPT !.next = @ + 1]))
    /\ UNCHANGED <<sessions, messages, evaluations, startPc, started,
                   nCalls, nUploads, nNotFound, nFailures, calc>>

OfCategory(rows, category) == SelectSeq(rows, LAMBDA q : q.category = category)

SessionScores(practicalScore, conceptualScore, explanationScore, behavioralScore) ==
    [practical |-> practicalScore, conceptual |-> conceptualScore,
     explanation |-> explanationScore, behavioral |-> behavioralScore,
     overall |-> WeightedOverall(practicalScore, conceptualScore,
                                 explanationScore, behavioralScore)]

\* completeInterview up to the weighted score: the category averages of the
\* rows read (each a const of the source, evaluated once) and their weighted sum
CompletionScores(rows) ==
    CHOOSE r \in
        { SessionScores(practicalScore, conceptualScore, explanationScore, behavioralScore) :
            practicalScore   \in {calculateAverageScore(OfCategory(rows, "practical"))},
            conceptualScore  \in {calculateAverageScore(OfCategory(rows, "conceptual"))},
            explanationScore \in {calculateAverageScore(OfCategory(rows, "explanation"))},
            behavioralScore  \in {calculateAverageScore(OfCategory(rows, "behavioral"))} } : TRUE

\* completeInterview: storage.getSessionQuestions, then the scores
CompleteGetQuestions(p) ==
    /\ calls[p].pc = "c_getQ"
    /\ \E scores \in {CompletionScores(getSessionQuestions(calls[p].sid))} :
          SetCall(p, [calls[p] EXCEPT !.pc = "c_report", !.scores = scores])
    /\ UNCHANGED <<sessions, messages, questions, evaluations, startPc, started,
                   nCalls, nUploads, nNotFound, nFailures, calc>>

\* completeInterview: gemini.generateFinalReport, returns the report or throws
CompleteReport(p) ==
    /\ calls[p].pc = "c_report"
    /\ \/ /\ nFailures < MaxFailures
          /\ nFailures' = nFailures + 1
          /\ SetCall(p, Respond([calls[p] EXCEPT !.aiCalls = @ + 1], 500))
       \/ /\ SetCall(p, [calls[p] EXCEPT !.pc = "c_update", !.aiCalls = @ + 1])
          /\ UNCHANGED nFailures
    /\ UNCHANGED <<sessions, messages, questions, evaluations, startPc, started,
                   nCalls, nUploads, nNotFound, calc>>

\* completeInterview writing the results and leaving the status to the
\* later "Update session"
CompleteUpdate_StatusLeftToUpdate(p) ==
    /\ calls[p].pc = "c_update"
    /\ sessions' = [sessions EXCEPT ![calls[p].sid] =
          [@ EXCEPT !.completedAt = TRUE,
                    !.overallScore = calls[p].scores.overall,
                    !.practicalScore = calls[p].scores.practical,
                    !.conceptualScore = calls[p].scores.conceptual,
                    !.explanationScore = calls[p].scores.explanation,
                    !.behavioralScore = calls[p].scores.behavioral,
                    !.strengths = "report", !.improvements = "report",
                    !.recommendations = "report"]]
    /\ SetCall(p, [calls[p] EXCEPT !.pc = "c_addMsg"])
    /\ UNCHANGED <<messages, questions, evaluations, startPc, started,
                   nCalls, nUploads, nNotFound, nFailures, calc>>

\* completeInterview: storage.updateInterviewSession with the final results
CompleteUpdate(p) ==
    /\ calls[p].pc = "c_update"
    /\ sessions' = [sessions EXCEPT ![calls[p].sid] =
          [@ EXCEPT !.status = "completed", !.completedAt = TRUE,
                    !.overallScore = calls[p].scores.overall,
                    !.practicalScore = calls[p].scores.practical,
                    !.conceptualScore = calls[p].scores.conceptual,
                    !.explanationScore = calls[p].scores.explanation,
                    !.behavioralScore = calls[p].scores.behavioral,
                    !.strengths = "report", !.improvements = "report",
                    !.recommendations = "report"]]
    /\ SetCall(p, [calls[p] EXCEPT !.pc = "c_addMsg"])
    /\ UNCHANGED <<messages, questions, evaluations, startPc, started,
                   nCalls, nUploads, nNotFound, nFailures, calc>>

\* completeInterview: storage.addChatMessage (completion message)
CompleteAddMessage(p) ==
    /\ calls[p].pc = "c_addMsg"
    /\ messages' = Append(messages,
          ChatMessage(calls[p].sid, "ai", "text",
                      Content("completion", "none", -1, FALSE),
                      [NoMetadata EXCEPT !.interviewComplete = TRUE,
                                         !.finalScore = calls[p].scores.overall]))
    /\ SetCall(p, [calls[p] EXCEPT !.pc = "update"])
    /\ UNCHANGED <<sessions, questions, evaluations, startPc, started,
                   nCalls, nUploads, nNotFound, nFailures, calc>>

\* updateInterviewSession as an increment of the stored index
\* (SET current_question_index = current_question_index + 1)
updateInterviewSession_Increment(sessionId, currentQuestionIndex, status) ==
    [sessions EXCEPT ![sessionId] = [@ EXCEPT !.currentQuestionIndex = @ + 1,
                                              !.status = status]]

\* the write of "Update session": index and status, whatever is stored
updateInterviewSession(sessionId, currentQuestionIndex, status) ==
    [sessions EXCEPT ![sessionId] = [@ EXCEPT !.currentQuestionIndex = currentQuestionIndex,
                                              !.status = status]]

\* "Update session": storage.updateInterviewSession(index, status)
UpdateSession(p) ==
    /\ calls[p].pc = "update"
    /\ sessions' = updateInterviewSession(calls[p].sid, calls[p].next,
                      IF calls[p].shouldContinue THEN "in_progress" ELSE "completed")
    /\ SetCall(p, [calls[p] EXCEPT !.pc = "addAi"])
    /\ UNCHANGED <<messages, questions, evaluations, startPc, started,
                   nCalls, nUploads, nNotFound, nFailures, calc>>

\* the text of aiResponse: feedback, then either the closing sentence or
\* the next question
AiResponse(c) ==
    IF c.shouldContinue THEN Content("reply", c.feedback, c.next, FALSE)
    ELSE Content("reply", c.feedback, -1, TRUE)

\* "Add AI response": storage.addChatMessage
AddAiMessage(p) ==
    /\ calls[p].pc = "addAi"
    /\ messages' = Append(messages,
          ChatMessage(calls[p].sid, "ai", "text", AiResponse(calls[p]), NoMetadata))
    /\ SetCall(p, [calls[p] EXCEPT !.pc =
                     IF calls[p].shouldContinue /\ IsPracticalTask(calls[p].next)
                     THEN "addTpl" ELSE "ret"])
    /\ UNCHANGED <<sessions, questions, evaluations, startPc, started,
                   nCalls, nUploads, nNotFound, nFailures, calc>>

\* storage.addChatMessage (template_download)
AddTemplateMessage(p) ==
    /\ calls[p].pc = "addTpl"
    /\ messages' = Append(messages,
          ChatMessage(calls[p].sid, "ai", "template_download",
                      Content("template", "none", -1, FALSE),
                      [NoMetadata EXCEPT !.templateType = Template(calls[p].next).taskType,
                                         !.timeLimit = Template(calls[p].next).timeLimit]))
    /\ SetCall(p, [calls[p] EXCEPT !.pc = "ret"])
    /\ UNCHANGED <<sessions, questions, evaluations, startPc, started,
                   nCalls, nUploads, nNotFound, nFailures, calc>>

\* storage.getSessionMessages, return; the route answers 200
ReturnResult(p) ==
    /\ calls[p].pc = "ret"
    /\ SetCall(p, Respond(calls[p], 200))
    /\ UNCHANGED <<sessions, messages, questions, evaluations, startPc, started,
                   nCalls, nUploads, nNotFound, nFailures, calc>>

(***************************************************************************)
(* Specifications.                                                         *)
(***************************************************************************)
NoCalc == [practical |-> 0, conceptual |-> 0, explanation |-> 0,
           behavioral |-> 0, overall |-> NoScore]

Init ==
    /\ sessions = [s \in SessionIds |-> NoSession]
    /\ messages = << >>
    /\ questions = << >>
    /\ evaluations = << >>
    /\ startPc = "idle"
    /\ started = FALSE
    /\ calls = [p \in Procs |-> IdleCall]
    /\ nCalls = 0
    /\ nUploads = 0
    /\ nNotFound = 0
    /\ nFailures = 0
    /\ calc = NoCalc

Step(p, scores) ==
    \/ RouteLookup(p)
    \/ ReadSession(p)
    \/ AddUserMessage(p)
    \/ WelcomeUpdate(p)
    \/ WelcomeAddAi(p)
    \/ ExcelEvaluate(p)
    \/ ExcelGetIndex(p)
    \/ ExcelAddQuestion(p)
    \/ ExcelGetLatest(p)
    \/ ExcelAddEvaluation(p)
    \/ AiEvaluate(p, scores)
    \/ AddQuestion(p)
    \/ CompleteGetQuestions(p)
    \/ CompleteReport(p)
    \/ CompleteUpdate(p)
    \/ CompleteAddMessage(p)
    \/ UpdateSession(p)
    \/ AddAiMessage(p)
    \/ AddTemplateMessage(p)
    \/ ReturnResult(p)

\* turns executed one at a time
Next ==
    \/ StartCreate(1)
    \/ StartWelcome
    \/ \E p \in Procs : BeginCall(p, 1, MaxCalls, MaxUploads, {NewSessionId})
    \/ \E p \in Procs : Step(p, Scores)

Spec == Init /\ [][Next]_vars

(***************************************************************************)
(* Interleaved turns.  The database outlives a request, so a server can    *)
(* find the session at any point of the script; the runs of interleaved    *)
(* requests start from the database a session has once it is started       *)
(* (i = -1) or after i turns that each answered a question (AI score       *)
(* CleanScore, workbook CleanWorkbook uploaded on the practical questions);*)
(* Spec reaches each of these databases.                                   *)
(***************************************************************************)
CleanScore == CHOOSE score \in Scores : TRUE
CleanWorkbook == WbSales
ConcStartIndices == {-1, 3, 6}

CleanAnswer(j) ==
    LET t == Template(j)
        ev == evaluateExcelFile(CleanWorkbook, expectedSheetsOf(t.taskType), t.taskType)
    IN  IF t.category = "practical"
        THEN [ev |-> ev,
              score |-> PracticalOverall(ev.formulaAccuracy, ev.structureScore,
                                         ev.bestPracticesScore)]
        ELSE [ev |-> NoEvaluation,
              score |-> IF t.category = "behavioral" THEN 80 ELSE CleanScore]

CleanFeedback(j) ==
    IF Template(j).category = "practical" THEN PracticalFeedback(CleanAnswer(j).score)
    ELSE IF Template(j).category = "behavioral" THEN "behavioral"
    ELSE AnswerFeedback(Template(j).category, CleanAnswer(j).score)

RECURSIVE CleanMessages(_)
CleanMessages(i) ==
    IF i = -1
    THEN << ChatMessage(NewSessionId, "ai", "text",
                        Content("welcome", "none", -1, FALSE), NoMetadata) >>
    ELSE IF i = 0
    THEN CleanMessages(-1) \o
         << ChatMessage(NewSessionId, "user", "text",
                        Content("user", "none", -1, FALSE), NoMetadata),
            ChatMessage(NewSessionId, "ai", "text",
                        Content("first_question", "none", 0, FALSE), NoMetadata) >>
    ELSE LET j == i - 1
             file == Template(j).category = "practical"
         IN  CleanMessages(j) \o
             << ChatMessage(NewSessionId, "user",
                            IF file THEN "file_upload" ELSE "text",
                            Content("user", "none", -1, FALSE),
                            [NoMetadata EXCEPT !.filePath = file]),
                ChatMessage(NewSessionId, "ai", "text",
                            Content("reply", CleanFeedback(j), i, FALSE), NoMetadata) >>
             \o (IF IsPracticalTask(i)
                 THEN << ChatMessage(NewSessionId, "ai", "template_download",
                            Content("template", "none", -1, FALSE),
                            [NoMetadata EXCEPT !.templateType = Template(i).taskType,
                                               !.timeLimit = Template(i).timeLimit]) >>
                 ELSE << >>)

CleanQuestions(i) ==
    [k \in 1..i |->
        [id |-> k, sessionId |-> NewSessionId, questionIndex |-> k - 1,
         category |-> Template(k - 1).category, score |-> CleanAnswer(k - 1).score,
         fileUploaded |-> Template(k - 1).category = "practical",
         isCompleted |-> TRUE]]

RECURSIVE CleanEvaluations(_)
CleanEvaluations(i) ==
    IF i <= 0 THEN << >>
    ELSE CleanEvaluations(i - 1) \o
         (IF Template(i - 1).category = "practical"
          THEN << [questionId |-> i,
                   formulaAccuracy |-> CleanAnswer(i - 1).ev.formulaAccuracy,
                   structureScore |-> CleanAnswer(i - 1).ev.structureScore,
                   bestPracticesScore |-> CleanAnswer(i - 1).ev.bestPracticesScore] >>
          ELSE << >>)

CleanSessions(i) ==
    [s \in SessionIds |->
        IF s = NewSessionId
        THEN [NoSession EXCEPT !.userId = DemoUser, !.status = "in_progress",
                               !.currentQuestionIndex = i,
                               !.totalQuestions = Len(QUESTION_TEMPLATES)]
        ELSE NoSession]

\* the database after i clean turns, no request being served
CleanState(i) ==
    /\ sessions = CleanSessions(i)
    /\ messages = CleanMessages(i)
    /\ questions = CleanQuestions(i)
    /\ evaluations = CleanEvaluations(i)
    /\ startPc = "done"
    /\ started = TRUE
    /\ calls = [p \in Procs |-> IdleCall]

InitConc ==
    /\ \E i \in ConcStartIndices : CleanState(i)
    /\ nCalls = 0
    /\ nUploads = 0
    /\ nNotFound = 0
    /\ nFailures = 0
    /\ calc = NoCalc

\* up to two requests served at a time
NextConc ==
    \/ \E p \in Procs : BeginCall(p, 2, MaxConcCalls, MaxConcUploads, {NewSessionId})
    \/ \E p \in Procs : Step(p, {CleanScore})

SpecConc == InitConc /\ [][NextConc]_vars

\* the same with room for a third request
NextStall ==
    \/ \E p \in Procs : BeginCall(p, 2, MaxStallCalls, MaxConcUploads, {NewSessionId})
    \/ \E p \in Procs : Step(p, {CleanScore})

SpecStall == InitConc /\ [][NextStall]_vars

(***************************************************************************)
(* The session-scoped endpoints, one request at a time, on the database    *)
(* of a session before its first turn, at a practical question and at the  *)
(* last question.                                                          *)
(***************************************************************************)
RouteStartIndices == {-1, 2, 7}

InitRoutes ==
    /\ \E i \in RouteStartIndices : CleanState(i)
    /\ nCalls = 0
    /\ nUploads = 0
    /\ nNotFound = 0
    /\ nFailures = 0
    /\ calc = NoCalc

RouteStep(p) ==
    \/ UploadFilter(p)
    \/ GetDetails(p)
    \/ SaveTemplate(p)

NextRoutes ==
    \/ \E p \in Procs : BeginRequest(p, 1, MaxRequests)
    \/ \E p \in Procs : RouteStep(p)
    \/ \E p \in Procs : Step(p, {CleanScore})

SpecRoutes == InitRoutes /\ [][NextRoutes]_vars

(***************************************************************************)
(* Turns executed one at a time with an AI service whose JSON carries any  *)
(* number as the score: JSON.parse hands it on as it is.                   *)
(***************************************************************************)
AiScores == {-5, 85, 150}

NextAnyScore ==
    \/ \E p \in Procs : BeginCall(p, 1, MaxConcCalls, MaxConcUploads, {NewSessionId})
    \/ \E p \in Procs : Step(p, AiScores)

SpecAnyScore == InitConc /\ [][NextAnyScore]_vars

(***************************************************************************)
(* The weighted score of completeInterview as a function of the four       *)
(* category averages.                                                      *)
(***************************************************************************)
PracticalAverages == {10 * k : k \in 0..10}
ConceptualAverages == {5 * k : k \in 0..20}
ExplanationAverages == 0..100
\* 80 is the score of every behavioral row
BehavioralAverages == {0, 1, 80, 100}

InitScore ==
    /\ sessions = [s \in SessionIds |-> NoSession]
    /\ messages = << >>
    /\ questions = << >>
    /\ evaluations = << >>
    /\ startPc = "idle"
    /\ started = FALSE
    /\ calls = [p \in Procs |-> IdleCall]
    /\ nCalls = 0
    /\ nUploads = 0
    /\ nNotFound = 0
    /\ nFailures = 0
    /\ calc \in [practical : PracticalAverages, conceptual : ConceptualAverages,
                 explanation : ExplanationAverages, behavioral : BehavioralAverages,
                 overall : {NoScore}]

ComputeOverall ==
    /\ calc.overall = NoScore
    /\ calc' = [calc EXCEPT !.overall =
                  WeightedOverall(calc.practical, calc.conceptual,
                                  calc.explanation, calc.behavioral)]
    /\ UNCHANGED <<sessions, messages, questions, evaluations, startPc, started,
                   calls, nCalls, nUploads, nNotFound, nFailures>>

NextScore == ComputeOverall

SpecScore == InitScore /\ [][NextScore]_vars

\* no session, no request: every variable but calc as in Init
EmptyServer ==
    /\ sessions = [s \in SessionIds |-> NoSession]
    /\ messages = << >>
    /\ questions = << >>
    /\ evaluations = << >>
    /\ startPc = "idle"
    /\ started = FALSE
    /\ calls = [p \in Procs |-> IdleCall]
    /\ nCalls = 0
    /\ nUploads = 0
    /\ nNotFound = 0
    /\ nFailures = 0

ServerUnchanged ==
    UNCHANGED <<sessions, messages, questions, evaluations, startPc, started,
                calls, nCalls, nUploads, nNotFound, nFailures>>

(***************************************************************************)
(* A whole interview with a candidate who uploads a file on each practical  *)
(* question, and no failing external call.  Turns are taken one at a time   *)
(* and a turn that can be taken is eventually taken.                        *)
(***************************************************************************)
InitInterview ==
    /\ sessions = [s \in SessionIds |-> NoSession]
    /\ messages = << >>
    /\ questions = << >>
    /\ evaluations = << >>
    /\ startPc = "idle"
    /\ started = FALSE
    /\ calls = [p \in Procs |-> IdleCall]
    /\ nCalls = 0
    /\ nUploads = 0
    /\ nNotFound = 0
    /\ nFailures = MaxFailures
    /\ calc = NoCalc

\* the candidate answers: with a file when the question asked is a practical
\* task, with or without one otherwise
CandidateTurn(p) ==
    /\ BeginCall(p, 1, MaxCalls, MaxCalls, {NewSessionId})
    /\ IsPracticalTask(sessions[NewSessionId].currentQuestionIndex) => calls'[p].hasFile

NextInterview ==
    \/ StartCreate(1)
    \/ StartWelcome
    \/ \E p \in Procs : CandidateTurn(p)
    \/ \E p \in Procs : Step(p, Scores)

\* the steps of a request whose outcome takes the inspection of a workbook
\* or the sorted read of the Question rows
LongSteps == {"xl_eval", "c_getQ"}

\* every step of a request but the two of LongSteps
ShortStep(p) == calls[p].pc \notin LongSteps /\ Step(p, Scores)

\* the server runs every request to its end and the candidate keeps
\* answering: a start, a new turn or a step of a request that stays possible
\* is taken, and a request does not wait for ever at a step of LongSteps,
\* which only taking that step leaves (the fairness of ExcelEvaluate and
\* CompleteGetQuestions with their enabling condition written out)
FairInterview ==
    /\ WF_vars(StartCreate(1))
    /\ WF_vars(StartWelcome)
    /\ WF_vars(\E p \in Procs : CandidateTurn(p))
    /\ WF_vars(\E p \in Procs : ShortStep(p))
    /\ \A p \in Procs : []<>(calls[p].pc \notin LongSteps)

SpecInterview == InitInterview /\ [][NextInterview]_vars /\ FairInterview

(***************************************************************************)
(* The progress GET /api/interviews/:sessionId reports, asked for between   *)
(* the turns of an interview.                                               *)
(***************************************************************************)
\* the progress object of getSessionWithDetails.  totalQuestions is always
\* the 8 written by startInterview, so the quotient by it and its product by
\* 100 are exact doubles and Math.round is floor(x + 0.5) of the exact value.
Progress(session) ==
    [currentQuestion |-> session.currentQuestionIndex + 1,
     totalQuestions  |-> session.totalQuestions,
     percentage      |-> (2 * 100 * (session.currentQuestionIndex + 1) + session.totalQuestions)
                            \div (2 * session.totalQuestions)]

NoProgress == [currentQuestion |-> 0, totalQuestions |-> 0, percentage |-> 0]

InitDetails ==
    /\ sessions = [s \in SessionIds |-> NoSession]
    /\ messages = << >>
    /\ questions = << >>
    /\ evaluations = << >>
    /\ startPc = "idle"
    /\ started = FALSE
    /\ calls = [p \in Procs |-> IdleCall]
    /\ nCalls = 0
    /\ nUploads = 0
    /\ nNotFound = 0
    /\ nFailures = 0
    /\ calc = NoProgress

\* GET /api/interviews/:sessionId on the session, served between two turns;
\* calc holds the progress of the last response
GetProgress ==
    /\ startPc = "done"
    /\ \A p \in Procs : calls[p].pc = "idle"
    /\ sessions[NewSessionId] # NoSession
    /\ calc' = Progress(sessions[NewSessionId])
    /\ UNCHANGED <<sessions, messages, questions, evaluations, startPc, started,
                   calls, nCalls, nUploads, nNotFound, nFailures>>

NextDetails ==
    \/ Next
    \/ GetProgress

SpecDetails == InitDetails /\ [][NextDetails]_vars

(***************************************************************************)
(* Route matching: the router tries the routes in the order registerRoutes *)
(* registers them and runs the handler of the first whose method and path  *)
(* pattern match; a ":name" segment of a pattern matches any segment.      *)
(***************************************************************************)
ROUTES == <<
    [method |-> "GET",  path |-> <<"api", "auth", "user">>,                handler |-> "authUser"],
    [method |-> "POST", path |-> <<"api", "interviews", "start">>,         handler |-> "start"],
    [method |-> "GET",  path |-> <<"api", "interviews", ":sessionId">>,    handler |-> "getSession"],
    [method |-> "POST", path |-> <<"api", "interviews", ":sessionId", "message">>,
                                                                           handler |-> "message"],
    [method |-> "POST", path |-> <<"api", "interviews", ":sessionId", "upload">>,
                                                                           handler |-> "upload"],
    [method |-> "GET",  path |-> <<"api", "interviews", ":sessionId", "template", ":templateType">>,
                                                                           handler |-> "template"],
    [method |-> "GET",  path |-> <<"api", "interviews", "history">>,       handler |-> "history"] >>

PathParams == {":sessionId", ":templateType"}

PathMatches(pattern, path) ==
    /\ Len(pattern) = Len(path)
    /\ \A i \in 1..Len(pattern) : pattern[i] \in PathParams \/ pattern[i] = path[i]

RouteMatches(route, method, path) ==
    route.method = method /\ PathMatches(route.path, path)

\* the handler that serves the request: that of the first route registered
\* that matches, "none" when no route does
MatchRoute(method, path) ==
    IF \E i \in 1..Len(ROUTES) : RouteMatches(ROUTES[i], method, path)
    THEN ROUTES[CHOOSE i \in 1..Len(ROUTES) :
                    /\ RouteMatches(ROUTES[i], method, path)
                    /\ \A j \in 1..(i - 1) : ~RouteMatches(ROUTES[j], method, path)].handler
    ELSE "none"

PathSegments ==
    {"history", "start", "s1", "s2", "message", "upload", "template", "sales_analysis"}

InitMatch ==
    /\ EmptyServer
    /\ \E method \in {"GET", "POST"}, n \in 1..MaxPathTail :
       \E tail \in [1..n -> PathSegments] :
          calc = [method |-> method, path |-> <<"api", "interviews">> \o tail,
                  handler |-> ""]

MatchRequest ==
    /\ calc.handler = ""
    /\ calc' = [calc EXCEPT !.handler = MatchRoute(calc.method, calc.path)]
    /\ ServerUnchanged

NextMatch == MatchRequest

SpecMatch == InitMatch /\ [][NextMatch]_vars

(***************************************************************************)
(* calculateAverageScore as a function of the rows of one category.        *)
(***************************************************************************)
\* the score column of a row: NULL or a stored number
RowScores == {NoScore, 0, 60, 75, 80, 85, 100}

RowsOfScores(scores) == [i \in 1..Len(scores) |-> [score |-> scores[i]]]

InitAverage ==
    /\ EmptyServer
    /\ \E n \in 0..MaxRows : \E scores \in [1..n -> RowScores] :
          calc = [rows |-> RowsOfScores(scores), average |-> NoScore]

ComputeAverage ==
    /\ calc.average = NoScore
    /\ calc' = [calc EXCEPT !.average = calculateAverageScore(calc.rows)]
    /\ ServerUnchanged

NextAverage == ComputeAverage

SpecAverage == InitAverage /\ [][NextAverage]_vars

(***************************************************************************)
(* evaluatePracticalTask up to the score it stores, as a function of the   *)
(* uploaded workbook and the task type.                                    *)
(***************************************************************************)
\* a sheet of an uploaded workbook: its name and its content
SheetKinds ==
    { [name |-> Monthly_Summary, sheet |-> [cells |-> Cells(<<NoFormula, F_sumifs>>), rows |-> 2]],
      [name |-> Monthly_Summary, sheet |-> [cells |-> Cells(<<NoFormula>>), rows |-> 0]],
      [name |-> Top_Products,    sheet |-> [cells |-> Cells(<<F_xlookup>>), rows |-> 1]],
      [name |-> KPI_Dashboard,   sheet |-> [cells |-> Cells(<<NoFormula>>), rows |-> 0]],
      [name |-> KPI_Dashboard,   sheet |-> [cells |-> Cells(<<F_index_match, F_sumifs>>), rows |-> 3]],
      [name |-> Clean_Data,      sheet |-> [cells |-> Cells(<<NoFormula, NoFormula>>), rows |-> 2]],
      [name |-> Sheet1,          sheet |-> [cells |-> Cells(<<NoFormula, F_sum>>), rows |-> 1]],
      [name |-> Sheet1,          sheet |-> [cells |-> Cells(<<NoFormula>>), rows |-> 0]] }

WorkbookOf(kinds) ==
    [SheetNames |-> [i \in 1..Len(kinds) |-> kinds[i].name],
     Sheets |-> [i \in 1..Len(kinds) |-> kinds[i].sheet]]

TaskTypes == {"data_cleanup", "sales_analysis"}

InitInspect ==
    /\ EmptyServer
    /\ \E n \in 0..MaxSheets : \E kinds \in [1..n -> SheetKinds] : \E taskType \in TaskTypes :
          calc = [workbook |-> WorkbookOf(kinds), taskType |-> taskType,
                  ev |-> NoEvaluation, rowScore |-> NoScore]

\* evaluatePracticalTask: the evaluation, and the score of the Question row
InspectWorkbook ==
    /\ calc.rowScore = NoScore
    /\ \E ev \in {evaluateExcelFile(calc.workbook, expectedSheetsOf(calc.taskType),
                                     calc.taskType)} :
          calc' = [calc EXCEPT !.ev = ev,
                               !.rowScore = PracticalOverall(ev.formulaAccuracy,
                                                ev.structureScore, ev.bestPracticesScore)]
    /\ ServerUnchanged

NextInspect == InspectWorkbook

SpecInspect == InitInspect /\ [][NextInspect]_vars

(***************************************************************************)
(* Properties.                                                             *)
(***************************************************************************)
\* the session the requests are made on
TheSession == sessions[NewSessionId]

UserMessage(p) ==
    ChatMessage(calls[p].sid, "user",
                IF calls[p].hasFile THEN "file_upload" ELSE "text",
                Content("user", "none", -1, FALSE),
                [NoMetadata EXCEPT !.filePath = calls[p].hasFile])

\* request slot p holds a request that has been answered with code
Answered(p, code) == calls[p].pc = "idle" /\ calls[p].resp = code

\* C1: with message-processing calls executed one after the other,
\* currentQuestionIndex never decreases and never exceeds 8.
C1_IndexNeverDecreasesNorExceeds8 ==
    [][sessions[NewSessionId] # NoSession =>
          /\ sessions'[NewSessionId].currentQuestionIndex
                >= sessions[NewSessionId].currentQuestionIndex
          /\ sessions'[NewSessionId].currentQuestionIndex <= 8]_vars

\* the index has gone all the way from -1 to 8
C1_Witness ==
    /\ TheSession.currentQuestionIndex = 8
    /\ nCalls >= 9
    /\ Answered(1, 200)

\* C2: once startInterview has returned and before any message call, the
\* session is in_progress with index -1 and 8 questions, the chat holds
\* exactly the welcome message (ai, text), and there is no Question row.
C2_StartCreatesSessionAndWelcome ==
    (startPc = "done" /\ nCalls = 0) =>
        /\ TheSession.status = "in_progress"
        /\ TheSession.currentQuestionIndex = -1
        /\ TheSession.totalQuestions = 8
        /\ messages = << ChatMessage(NewSessionId, "ai", "text",
                                     Content("welcome", "none", -1, FALSE), NoMetadata) >>
        /\ questions = << >>

C2_Witness == startPc = "done" /\ started /\ nCalls = 0

\* C3: a call that finds the index at -1, with or without a file, is
\* answered 200 having set the index to 0 and appended the user message
\* followed by exactly one AI text message carrying question 0; it makes no
\* AI and no spreadsheet call and adds no Question row.
C3_FirstCallAsksQuestion0 ==
    \A p \in Procs :
        (calls[p].pc = "idle" /\ calls[p].sIdx = -1) =>
            /\ calls[p].resp = 200
            /\ TheSession.currentQuestionIndex = 0
            /\ Len(messages) = calls[p].pre.nMessages + 2
            /\ messages[Len(messages) - 1] = UserMessage(p)
            /\ messages[Len(messages)] =
                  ChatMessage(NewSessionId, "ai", "text",
                              Content("first_question", "none", 0, FALSE), NoMetadata)
            /\ calls[p].aiCalls = 0
            /\ calls[p].xlCalls = 0
            /\ Len(questions) = calls[p].pre.nQuestions
            /\ Len(evaluations) = calls[p].pre.nEvaluations

\* the first call was an upload
C3_Witness ==
    /\ Answered(1, 200)
    /\ calls[1].sIdx = -1
    /\ calls[1].hasFile
    /\ TheSession.currentQuestionIndex = 0

\* C4 as stated: every successful call on index i in 0..7 leaves the index
\* at i+1, whatever the category and whether or not a file is supplied.
C4_EverySuccessfulCallAdvances ==
    \A p \in Procs :
        (Answered(p, 200) /\ calls[p].sIdx \in 0..7) =>
            TheSession.currentQuestionIndex = calls[p].sIdx + 1

\* C4 amended: a successful call on index i in 0..7 leaves the index at i+1,
\* except on a practical question answered without a file, where it leaves
\* the index at i.
C4_AdvancesUnlessPracticalWithoutFile ==
    \A p \in Procs :
        (Answered(p, 200) /\ calls[p].sIdx \in 0..7) =>
            TheSession.currentQuestionIndex =
                IF Template(calls[p].sIdx).category = "practical" /\ ~calls[p].hasFile
                THEN calls[p].sIdx
                ELSE calls[p].sIdx + 1

\* a text answer to the first practical question has been answered 200
C4_Witness ==
    /\ Answered(1, 200)
    /\ calls[1].sIdx = 2
    /\ ~calls[1].hasFile
    /\ TheSession.currentQuestionIndex = 2

\* C5: on the turn that completes the interview the call appends, in this
\* order, the user message, the AI feedback message and the completion
\* message, which is the last message and carries finalScore.
C5_CompletionMessageIsLast ==
    \A p \in Procs :
        (Answered(p, 200) /\ ~calls[p].shouldContinue) =>
            /\ Len(messages) = calls[p].pre.nMessages + 3
            /\ messages[Len(messages) - 2] = UserMessage(p)
            /\ messages[Len(messages) - 1].content.text = "reply"
            /\ messages[Len(messages)].content.text = "completion"
            /\ messages[Len(messages)].metadata.finalScore # NoScore

\* C6: the status only moves from in_progress to completed, whatever the
\* interleaving of calls, and abandoned is never written.
C6_StatusOnlyMovesForward ==
    [][sessions[NewSessionId] # NoSession =>
          /\ sessions'[NewSessionId].status # "abandoned"
          /\ sessions[NewSessionId].status = "in_progress" =>
                sessions'[NewSessionId].status \in {"in_progress", "completed"}
          /\ sessions[NewSessionId].status = "completed" =>
                sessions'[NewSessionId].status = "completed"]_vars

\* C7: with calls executed one after the other, failed calls and their
\* retries included, no two Question rows of a session have the same
\* questionIndex.
C7_NoTwoRowsWithSameIndex ==
    \A i, j \in 1..Len(questions) :
        (i # j /\ questions[i].sessionId = questions[j].sessionId) =>
            questions[i].questionIndex # questions[j].questionIndex

\* C8: two interleaved calls that both read index i and both advance are
\* both answered 200, each having persisted a Question row, and the stored
\* index is i+1: one of the two advances is lost.
C8_InterleavedCallsLoseAnUpdate ==
    (/\ nCalls = 2
     /\ Answered(1, 200) /\ Answered(2, 200)
     /\ calls[1].sIdx >= 0
     /\ calls[1].sIdx = calls[2].sIdx
     /\ calls[1].next = calls[1].sIdx + 1
     /\ calls[2].next = calls[2].sIdx + 1) =>
        /\ TheSession.currentQuestionIndex = calls[1].sIdx + 1
        /\ Len(questions) = Min(calls[1].pre.nQuestions, calls[2].pre.nQuestions) + 2

\* both calls stored a row for the index they read
C8_Witness ==
    /\ nCalls = 2
    /\ Answered(1, 200) /\ Answered(2, 200)
    /\ calls[1].sIdx = 6
    /\ calls[2].sIdx = 6
    /\ TheSession.currentQuestionIndex = 7
    /\ Len(questions) = 8
    /\ questions[7].questionIndex = 6
    /\ questions[8].questionIndex = 6

\* C9: when the AI evaluation of a conceptual or explanation answer fails,
\* the call is answered 500 with the user message stored and nothing else
\* changed: no Question row, no AI message, session untouched.
C9_AiFailureKeepsOnlyUserMessage ==
    \A p \in Procs :
        (calls[p].pc = "idle" /\ calls[p].at = "ai_eval") =>
            /\ calls[p].resp = 500
            /\ Template(calls[p].sIdx).category \in {"conceptual", "explanation"}
            /\ Len(messages) = calls[p].pre.nMessages + 1
            /\ messages[Len(messages)] = UserMessage(p)
            /\ sessions[calls[p].sid] = calls[p].pre.session
            /\ Len(questions) = calls[p].pre.nQuestions
            /\ Len(evaluations) = calls[p].pre.nEvaluations

\* the evaluation of the explanation answer failed
C9_Witness ==
    /\ Answered(1, 500)
    /\ calls[1].at = "ai_eval"
    /\ calls[1].sIdx = 4
    /\ nFailures = 1

\* p*0.5 + c*0.25 + e*0.15 + b*0.1 rounded half up, in exact arithmetic
RoundHalfUpWeighted(p, c, e, b) ==
    (50 * p + 25 * c + 15 * e + 10 * b + 50) \div 100

RECURSIVE TotalCountingNoScoreAs0(_)
TotalCountingNoScoreAs0(rows) ==
    IF rows = << >> THEN 0
    ELSE (IF Head(rows).score = NoScore THEN 0 ELSE Head(rows).score)
         + TotalCountingNoScoreAs0(Tail(rows))

Abs(x) == IF x < 0 THEN -x ELSE x

\* C11: calculateAverageScore returns the arithmetic mean of the rows'
\* scores rounded to the nearest integer, a row with no numeric score
\* counting as 0, and 0 for an empty category; scores [80, 60] give 70.
C11_AverageIsRoundedMean ==
    calc.average # NoScore =>
        LET n == Len(calc.rows)
            total == TotalCountingNoScoreAs0(calc.rows)
        IN  /\ n = 0 => calc.average = 0
            /\ n > 0 => 2 * Abs(calc.average * n - total) <= n
            /\ calc.rows = RowsOfScores(<<80, 60>>) => calc.average = 70

\* two scored rows and one without a score: (80 + 75 + 0) / 3 rounds to 52
C11_Witness ==
    /\ calc.rows = RowsOfScores(<<80, 75, NoScore>>)
    /\ calc.average = 52

\* f*0.5 + s*0.3 + b*0.2 rounded half up, in exact arithmetic
RoundHalfUpPractical(f, s, b) == (5 * f + 3 * s + 2 * b + 5) \div 10

\* C12: for every triple of sub-scores the spreadsheet inspector returns,
\* the score stored on the practical Question row is
\* round(formulaAccuracy*0.5 + structureScore*0.3 + bestPracticesScore*0.2);
\* 100/80/60 gives 86.
C12_PracticalScoreIsRoundedWeightedSum ==
    calc.rowScore # NoScore =>
        /\ calc.rowScore = RoundHalfUpPractical(calc.ev.formulaAccuracy,
                                                calc.ev.structureScore,
                                                calc.ev.bestPracticesScore)
        /\ PracticalOverall(100, 80, 60) = 86

\* one sheet with a lookup formula only: 75*0.5 + 60*0.3 + 70*0.2 = 69.5
C12_Witness ==
    /\ calc.rowScore = 70
    /\ calc.ev.formulaAccuracy = 75
    /\ calc.ev.structureScore = 60
    /\ calc.ev.bestPracticesScore = 70

\* C13: every sub-score evaluateExcelFile returns lies in 0..100, also
\* when the missing-sheet penalty takes the structure score below 0 (it is
\* then 0) and when the per-sheet sums exceed 100 (they are then 100).
C13_SubScoresClamped ==
    calc.rowScore # NoScore =>
        LET loop == SheetLoop(calc.workbook, calc.taskType, Len(calc.workbook.SheetNames))
            missing == Len(calc.ev.issues) > 0 /\ calc.ev.issues[1] = "missing_sheets"
        IN  /\ calc.ev.formulaAccuracy \in 0..100
            /\ calc.ev.structureScore \in 0..100
            /\ calc.ev.bestPracticesScore \in 0..100
            /\ (missing /\ loop.structureScore < 20) => calc.ev.structureScore = 0
            /\ loop.formulaAccuracy > 100 => calc.ev.formulaAccuracy = 100
            /\ loop.structureScore > 120 => calc.ev.structureScore = 100

\* a data_cleanup upload without the Clean_Data sheet: structure -20, stored 0
C13_Witness ==
    /\ calc.rowScore # NoScore
    /\ calc.taskType = "data_cleanup"
    /\ calc.workbook = WbPlain
    /\ calc.ev.issues = <<"missing_sheets">>
    /\ calc.ev.structureScore = 0

\* C14: every stored Question row has a score within 0..100, whatever
\* number the AI service returns as the score of a conceptual or
\* explanation answer.
C14_RowScoresWithin0To100 ==
    \A i \in 1..Len(questions) : questions[i].score \in 0..100

\* request slot p holds a request that has been answered
Done(p) == calls[p].pc = "idle" /\ calls[p].resp # 0

\* the database is as it was when the request in slot p arrived
DbAsBefore(p) ==
    /\ sessions[calls[p].sid] = calls[p].pre.session
    /\ Len(messages) = calls[p].pre.nMessages
    /\ Len(questions) = calls[p].pre.nQuestions
    /\ Len(evaluations) = calls[p].pre.nEvaluations

C16_NonOwnerAlways404 ==
    \A p \in Procs :
        (/\ Done(p)
         /\ calls[p].variant = "authenticated"
         /\ calls[p].pre.session # NoSession
         /\ calls[p].pre.session.userId # calls[p].user) =>
            calls[p].resp = 404 /\ DbAsBefore(p)

\* C16 amended: in the authenticated variant a session-scoped request by a
\* user who is not the session's owner changes no persisted state and
\* responds 404, except an upload that is answered before the owner check:
\* 400 without a file, rejected by the filter with a file of another type.
C16_NonOwner404UnlessUploadRejected ==
    \A p \in Procs :
        (/\ Done(p)
         /\ calls[p].variant = "authenticated"
         /\ calls[p].pre.session # NoSession
         /\ calls[p].pre.session.userId # calls[p].user) =>
            /\ DbAsBefore(p)
            /\ calls[p].sIdx = NoIndex
            /\ IF calls[p].route = "upload" /\ calls[p].file = NoFile
               THEN calls[p].resp = 400
               ELSE IF calls[p].route = "upload" /\ calls[p].file \notin allowedTypes
               THEN calls[p].at = "filter"
               ELSE calls[p].resp = 404 /\ calls[p].at = "route"

\* a message posted to another user's session is answered 404
C16_Witness ==
    /\ Done(1)
    /\ calls[1].variant = "authenticated"
    /\ calls[1].user = OtherUser
    /\ calls[1].pre.session.userId = DemoUser
    /\ calls[1].route = "message"
    /\ calls[1].resp = 404

\* C17: an upload whose file has a content type other than the two
\* accepted spreadsheet types is rejected by the filter before the route
\* handler runs: processUserMessage is not invoked (the session is never
\* read by it) and no chat message, Question row or session update is
\* stored.
C17_OtherContentTypeRejectedByFilter ==
    \A p \in Procs :
        (/\ Done(p)
         /\ calls[p].route = "upload"
         /\ calls[p].file \notin {NoFile, XlsxType, XlsType}) =>
            /\ calls[p].at = "filter"
            /\ calls[p].resp \notin {200, 400, 404}
            /\ calls[p].sIdx = NoIndex
            /\ DbAsBefore(p)

\* a CSV uploaded by the owner to an existing session was rejected
C17_Witness ==
    /\ Done(1)
    /\ calls[1].route = "upload"
    /\ calls[1].file = CsvType
    /\ calls[1].user = DemoUser
    /\ calls[1].pre.session # NoSession
    /\ calls[1].at = "filter"

\* C18: with routes matched in the order registerRoutes registers them, a
\* GET request to /api/interviews/history is served by the history handler.
C18_HistoryServedByHistoryHandler ==
    (/\ calc.handler # ""
     /\ calc.method = "GET"
     /\ calc.path = <<"api", "interviews", "history">>) =>
        calc.handler = "history"

\* the five scores and the three lists of a session row
Results(session) ==
    <<session.overallScore, session.practicalScore, session.conceptualScore,
      session.explanationScore, session.behavioralScore,
      session.strengths, session.improvements, session.recommendations>>

NoResults == <<NoScore, NoScore, NoScore, NoScore, NoScore, NoList, NoList, NoList>>

\* C19: with turns executed one at a time, a session that is in_progress
\* has its five scores and its strengths, improvements and recommendations
\* unset, and they are written only by an update that stores completed.
C19_ResultsOnlyWithCompleted ==
    /\ [](\A sid \in SessionIds :
            sessions[sid].status = "in_progress" => Results(sessions[sid]) = NoResults)
    /\ [][\A sid \in SessionIds :
            Results(sessions'[sid]) # Results(sessions[sid]) =>
                sessions'[sid].status = "completed"]_vars

\* the completing turn has written the results and been answered
C19_Witness ==
    /\ Answered(1, 200)
    /\ ~calls[1].shouldContinue
    /\ TheSession.status = "completed"
    /\ TheSession.overallScore # NoScore
    /\ TheSession.strengths # NoList

\* the messages the call in slot p has appended
Appended(p) == SubSeq(messages, calls[p].pre.nMessages + 1, Len(messages))

TemplateDownload(sid, templateType, timeLimit) ==
    ChatMessage(sid, "ai", "template_download", Content("template", "none", -1, FALSE),
                [NoMetadata EXCEPT !.templateType = templateType, !.timeLimit = timeLimit])

\* C20: a call answered 200 has appended a template_download message
\* exactly when the question at the resulting index is a practical task
\* (index 2: data_cleanup, 8 minutes; index 3: sales_analysis, 10 minutes);
\* the message comes immediately after the AI text message and is the last
\* one appended.  On every other turn, the first and the completing one
\* included, no template_download message is appended.
C20_TemplateExactlyBeforePracticalTask ==
    \A p \in Procs :
        Answered(p, 200) =>
            LET added == Appended(p)
                index == sessions[calls[p].sid].currentQuestionIndex
            IN  IF index \in {2, 3}
                THEN /\ Len(added) = 3
                     /\ added[1] = UserMessage(p)
                     /\ added[2].sender = "ai" /\ added[2].messageType = "text"
                     /\ added[2].content.question = index
                     /\ added[3] = IF index = 2
                                   THEN TemplateDownload(calls[p].sid, "data_cleanup", 8)
                                   ELSE TemplateDownload(calls[p].sid, "sales_analysis", 10)
                ELSE \A i \in 1..Len(added) : added[i].messageType # "template_download"

\* an answer to a practical question given without a file has been
\* answered with the same task and its template again
C20_Witness ==
    /\ Answered(1, 200)
    /\ calls[1].sIdx = 3
    /\ ~calls[1].hasFile
    /\ TheSession.currentQuestionIndex = 3
    /\ messages[Len(messages)] = TemplateDownload(NewSessionId, "sales_analysis", 10)

\* C21: a turn answering the behavioral question (index 6) is answered 200
\* having made no AI call, added exactly one Question row, of category
\* behavioral with score 80 and isCompleted true, and left the index at 7.
C21_BehavioralTurnStoresFixed80 ==
    \A p \in Procs :
        (calls[p].pc = "idle" /\ calls[p].sIdx = 6) =>
            /\ calls[p].resp = 200
            /\ calls[p].aiCalls = 0
            /\ calls[p].xlCalls = 0
            /\ Len(questions) = calls[p].pre.nQuestions + 1
            /\ questions[Len(questions)].questionIndex = 6
            /\ questions[Len(questions)].category = "behavioral"
            /\ questions[Len(questions)].score = 80
            /\ questions[Len(questions)].isCompleted
            /\ Len(evaluations) = calls[p].pre.nEvaluations
            /\ TheSession.currentQuestionIndex = 7

\* the behavioral question has been answered
C21_Witness ==
    /\ Answered(1, 200)
    /\ calls[1].sIdx = 6
    /\ TheSession.currentQuestionIndex = 7
    /\ questions[Len(questions)].category = "behavioral"

\* no request is being served
Quiet == startPc # "welcome" /\ InFlight = {}

\* C22: with no failing external call and a file on each practical question,
\* between turns the index is the number of calls made minus one up to the
\* ninth call, the session is completed exactly from the ninth call on, the
\* index only ever moves to the next value, and the session is eventually
\* completed.
C22_CompletesAfterExactly9Calls ==
    /\ []((Quiet /\ started) =>
            /\ TheSession.currentQuestionIndex = Min(nCalls, 9) - 1
            /\ TheSession.status = "completed" <=> nCalls >= 9)
    /\ [][TheSession.currentQuestionIndex' \in
              {TheSession.currentQuestionIndex, TheSession.currentQuestionIndex + 1}]_vars
    /\ <>(TheSession.status = "completed")

\* the ninth call has completed the session
C22_Witness ==
    /\ Answered(1, 200)
    /\ nCalls = 9
    /\ TheSession.status = "completed"
    /\ TheSession.currentQuestionIndex = 8
    /\ Len(questions) = 8

\* C23: a call without a file on a practical question (index 2 or 3) is
\* answered 200 without any evaluation: the session row is as before, no
\* Question and no ExcelEvaluation row is added, and what it appends is the
\* user message, an AI message asking the same question again and that
\* question's template_download message.  A session that has received only
\* text messages is therefore never past index 2 and never completed.
C23_PracticalWithoutFileRepeatsTask ==
    /\ \A p \in Procs :
          (calls[p].pc = "idle" /\ calls[p].sIdx \in {2, 3} /\ ~calls[p].hasFile) =>
              /\ calls[p].resp = 200
              /\ calls[p].aiCalls = 0
              /\ calls[p].xlCalls = 0
              /\ sessions[calls[p].sid] = calls[p].pre.session
              /\ Len(questions) = calls[p].pre.nQuestions
              /\ Len(evaluations) = calls[p].pre.nEvaluations
              /\ Len(Appended(p)) = 3
              /\ Appended(p)[1] = UserMessage(p)
              /\ Appended(p)[2] = ChatMessage(calls[p].sid, "ai", "text",
                                       Content("reply", "none", calls[p].sIdx, FALSE),
                                       NoMetadata)
              /\ Appended(p)[3] = TemplateDownload(calls[p].sid,
                                       Template(calls[p].sIdx).taskType,
                                       Template(calls[p].sIdx).timeLimit)
    /\ (started /\ nUploads = 0) =>
          /\ TheSession.currentQuestionIndex <= 2
          /\ TheSession.status = "in_progress"

\* a second text message in a row has been answered on the first practical
\* question of a session that never received a file
C23_Witness ==
    /\ Answered(1, 200)
    /\ calls[1].sIdx = 2
    /\ calls[1].pre.session.currentQuestionIndex = 2
    /\ calls[1].pre.nMessages >= 10
    /\ nUploads = 0
    /\ TheSession.currentQuestionIndex = 2

\* C24: a call that finds the session at index 8 is answered with an error
\* (500); the session row and the Question and ExcelEvaluation rows are as
\* before, and the only thing it has stored is its user message: no AI
\* message follows it.
C24_CallOnCompletedSessionFails ==
    \A p \in Procs :
        (calls[p].pc = "idle" /\ calls[p].sIdx = 8) =>
            /\ calls[p].resp = 500
            /\ sessions[calls[p].sid] = calls[p].pre.session
            /\ questions = SubSeq(questions, 1, calls[p].pre.nQuestions)
            /\ Len(questions) = calls[p].pre.nQuestions
            /\ Len(evaluations) = calls[p].pre.nEvaluations
            /\ Appended(p) = <<UserMessage(p)>>
            /\ calls[p].aiCalls = 0
            /\ calls[p].xlCalls = 0

\* a call on the completed session has been answered 500
C24_Witness ==
    /\ Answered(1, 500)
    /\ calls[1].sIdx = 8
    /\ TheSession.status = "completed"
    /\ TheSession.overallScore # NoScore
    /\ messages[Len(messages)] = UserMessage(1)

\* C25: in every state of the database, a state after each single write of a
\* turn included, a session is completed if and only if its
\* currentQuestionIndex equals its totalQuestions.
C25_CompletedIffIndexIsTotal ==
    \A sid \in SessionIds :
        sessions[sid] # NoSession =>
            (sessions[sid].status = "completed"
                <=> sessions[sid].currentQuestionIndex = sessions[sid].totalQuestions)

\* C26: the progress reported for a session, at any index from -1 to 8, has
\* 0 <= currentQuestion <= totalQuestions and 0 <= percentage <= 100.
C26_ProgressWithinBounds ==
    /\ 0 <= calc.currentQuestion
    /\ calc.currentQuestion <= calc.totalQuestions
    /\ 0 <= calc.percentage
    /\ calc.percentage <= 100

\* C27: for the task type data_cleanup evaluateExcelFile returns
\* formulaAccuracy 0 and structureScore 0 whatever the workbook, so the
\* score stored is bestPracticesScore * 0.2 rounded, at most 20, and the
\* feedback is that of the lowest band.
C27_DataCleanupScoresAtMost20 ==
    (calc.rowScore # NoScore /\ calc.taskType = "data_cleanup") =>
        /\ calc.ev.formulaAccuracy = 0
        /\ calc.ev.structureScore = 0
        /\ calc.rowScore = (2 * calc.ev.bestPracticesScore + 5) \div 10
        /\ calc.rowScore <= 20
        /\ PracticalFeedback(calc.rowScore) = "practical_improve"

\* the best data_cleanup workbook there is: the expected sheet among several
\* well-named ones, with a long formula
C27_Witness ==
    /\ calc.taskType = "data_cleanup"
    /\ calc.ev.issues = << >>
    /\ calc.ev.bestPracticesScore = 100
    /\ calc.rowScore = 20

\* a formula that mentions one of the functions the formula score looks for
Rewarded(f) ==
    \/ Includes(ToUpperCase(f), STR_XLOOKUP)
    \/ Includes(ToUpperCase(f), STR_SUMIFS)
    \/ Includes(ToUpperCase(f), STR_INDEX)
    \/ Includes(ToUpperCase(f), STR_MATCH)

\* whether some formula of some sheet of the workbook satisfies P
SomeFormula(workbook, P(_)) ==
    \E i \in 1..Len(workbook.Sheets) :
        \E j \in 1..Len(workbook.Sheets[i].cells) : P(workbook.Sheets[i].cells[j].f)

\* XLOOKUP, or both INDEX and MATCH, or SUMIFS occurs among the formulas of
\* the whole workbook
HasRewardedFormulas(workbook) ==
    \/ SomeFormula(workbook, LAMBDA f : Includes(ToUpperCase(f), STR_XLOOKUP))
    \/ /\ SomeFormula(workbook, LAMBDA f : Includes(ToUpperCase(f), STR_INDEX))
       /\ SomeFormula(workbook, LAMBDA f : Includes(ToUpperCase(f), STR_MATCH))
    \/ SomeFormula(workbook, LAMBDA f : Includes(ToUpperCase(f), STR_SUMIFS))

\* the same workbook with the cells holding such formulas holding none
WithoutRewardedFormulas(workbook) ==
    [workbook EXCEPT !.Sheets =
        [i \in 1..Len(workbook.Sheets) |->
            [workbook.Sheets[i] EXCEPT !.cells =
                [j \in 1..Len(workbook.Sheets[i].cells) |->
                    IF Rewarded(workbook.Sheets[i].cells[j].f)
                    THEN [f |-> NoFormula]
                    ELSE workbook.Sheets[i].cells[j]]]]]

\* C28: for sales_analysis, a workbook in whose formulas XLOOKUP, or INDEX
\* and MATCH, or SUMIFS occur is reported a formulaAccuracy strictly greater
\* than the same workbook without those formulas.
C28_RewardedFormulasRaiseFormulaAccuracy ==
    (/\ calc.rowScore # NoScore
     /\ calc.taskType = "sales_analysis"
     /\ HasRewardedFormulas(calc.workbook)) =>
        calc.ev.formulaAccuracy >
            evaluateExcelFile(WithoutRewardedFormulas(calc.workbook),
                              expectedSheetsOf(calc.taskType), calc.taskType).formulaAccuracy

\* the ExcelEvaluation rows that reference the Question row of this id
EvaluationsOf(id) == {i \in 1..Len(evaluations) : evaluations[i].questionId = id}

\* C29: with turns executed one at a time, every ExcelEvaluation row
\* references a Question row of category practical, never an empty id or a
\* row of another category; the row it references is the one stored in the
\* same turn; and between turns every practical Question row has exactly one
\* ExcelEvaluation row.
C29_EvaluationReferencesItsPracticalRow ==
    /\ [](\A i \in 1..Len(evaluations) :
            \E j \in 1..Len(questions) :
                /\ questions[j].id = evaluations[i].questionId
                /\ questions[j].category = "practical")
    /\ [](Quiet =>
            \A j \in 1..Len(questions) :
                questions[j].category = "practical" =>
                    Cardinality(EvaluationsOf(questions[j].id)) = 1)
    /\ [][\A p \in Procs :
            Len(evaluations') > Len(evaluations) /\ calls[p].pc = "xl_addEval" =>
                /\ Len(questions) = calls[p].pre.nQuestions + 1
                /\ evaluations'[Len(evaluations')].questionId = questions[Len(questions)].id]_vars

\* both practical tasks have been answered with a file
C29_Witness ==
    /\ Quiet
    /\ Len(evaluations) = 2
    /\ Len(OfCategory(questions, "practical")) = 2
    /\ TheSession.currentQuestionIndex >= 4

\* the Question rows of the session with this questionIndex
RowsAt(index) ==
    SelectSeq(questions, LAMBDA q : q.sessionId = NewSessionId /\ q.questionIndex = index)

\* C30: in a run of sequential turns in which no call has failed, a
\* completed session has exactly 8 Question rows, one for each questionIndex
\* 0..7, each with isCompleted true and the category of the script at its
\* index, and the scores stored at completion are the averages of 4
\* conceptual, 2 practical, 1 explanation and 1 behavioral row.
C30_CompletedSessionHasOneRowPerQuestion ==
    (nFailures = 0 /\ TheSession.status = "completed") =>
        /\ Len(questions) = 8
        /\ \A i \in 0..7 :
              /\ Len(RowsAt(i)) = 1
              /\ RowsAt(i)[1].isCompleted
              /\ RowsAt(i)[1].category =
                    <<"conceptual", "conceptual", "practical", "practical",
                      "explanation", "conceptual", "behavioral", "conceptual">>[i + 1]
        /\ Len(OfCategory(questions, "conceptual")) = 4
        /\ Len(OfCategory(questions, "practical")) = 2
        /\ Len(OfCategory(questions, "explanation")) = 1
        /\ Len(OfCategory(questions, "behavioral")) = 1
        /\ TheSession.conceptualScore = calculateAverageScore(OfCategory(questions, "conceptual"))
        /\ TheSession.practicalScore = calculateAverageScore(OfCategory(questions, "practical"))
        /\ TheSession.explanationScore = calculateAverageScore(OfCategory(questions, "explanation"))
        /\ TheSession.behavioralScore = calculateAverageScore(OfCategory(questions, "behavioral"))

\* the status has just become completed in a run without a failed call
C30_Witness ==
    /\ nFailures = 0
    /\ calls[1].pc = "c_addMsg"
    /\ TheSession.status = "completed"
    /\ TheSession.currentQuestionIndex = 7
    /\ Len(questions) = 8

====
